---- MODULE Spec2Model ----
(***************************************************************************)
(* Model of the documentation retrieval service (mcp-server).              *)
(*                                                                         *)
(* Part I  : SearchCache (utils/search-cache.ts), the LRU+TTL query cache  *)
(*           with singleflight de-duplication.  Specification SpecCache.   *)
(* Part II : the corpus on disk, DocIndexManager (utils/doc-index.ts), the *)
(*           fact-index cache (utils/fact-index-cache.ts), DocUpdateAgent  *)
(*           (rag/doc-update.ts) and DocsWatcher (watchers/docs-watcher.ts)*)
(*           Specification SpecDocs: the update agent, watcher not started.*)
(*           Specification SpecWatch: the started watcher.                 *)
(***************************************************************************)
EXTENDS Naturals, Integers, Sequences, FiniteSets, TLC

(***************************************************************************)
(* Part I.  SearchCache                                                    *)
(***************************************************************************)

\* Bounds of the cache model.
MaxCalls == 3
MaxSize == 2

Callers == {"c1", "c2", "c3"}
Fingerprints == {"fp1", "fp2"}
Queries == {"Auth", "auth"}
ResultVals == {"hitsA", "hitsB"}
Errors == {"errA", "errB"}

VARIABLES
  cache,      \* LRUCache: sequence of [k, v], least recently used first
  inflight,   \* Map<string, InflightRequest>: serialized key -> request id (0 = absent)
  reqs,       \* every InflightRequest ever created: [key, status]
  callSt,     \* per caller: the state of its current get() call
  calls,      \* number of get() calls made so far
  overlap,    \* history: pairs of callers whose same-key calls were pending together
  lastFetch   \* history: per serialized key, outcome of the latest fetchFn event

cacheVars == <<cache, inflight, reqs, callSt, calls, overlap, lastFetch>>

\* The state of Part II.
VARIABLES
  now,        \* Date.now(), in clock ticks
  disk,       \* the files of DocsRoot: path -> [exists, lines, mtime]
  dver,       \* history: number of completed writes to the files of DocsRoot
  docCache,   \* DocIndexManager.cache: root -> CacheEntry
  factCache,  \* fact-index-cache: root -> { index, builtAt }
  suggestion, \* the DocUpdateSuggestion last returned by suggestUpdate
  pcApply,    \* "idle", or "writing" while writeFileSync of applyUpdate is under way
  wr,         \* locals of the applyUpdate call under way: [path, action, pre, toWrite]
  applyLoc,   \* history: summary of the applyUpdate call under way or last finished
  events,     \* events emitted by the agent during that applyUpdate call, in order
  result,     \* DocUpdateResult of the applyUpdate call last finished
  successVer, \* history: dver right after the write of the last successful applyUpdate
  observed,   \* history: what another process read of the target during the write under way
  watcher,    \* DocsWatcher.watcher: "undefined" until start(), then "chokidar";
              \* "closed" while stop() awaits close() of the FSWatcher it holds
  fsPending,  \* chokidar notifications not yet delivered: path -> change type
  timers,     \* DocsWatcher.debounceTimers: path -> [type, due] (NoTimer = no entry)
  awaiting,   \* debounce callbacks suspended in `await this.onReindex()`
  wLast,      \* the event last emitted by the watcher
  onReindex,  \* "none" when the watcher has no onReindex callback, else "async"
  invd,       \* history: root -> invalidate(root) has been called on a cached entry
  scheduled,  \* the timers of setTimeout not yet fired or cleared: [file, type, due]
  lastNotified, \* history: path -> time of the last handleChange call for the path
  errListener,  \* whether a listener of the `error` event is registered on the watcher
  uncaught,   \* "none", or how an error has escaped every handler of the process
  notes,      \* history: number of changes the FSWatcher has reported by itself
  returnedMax, \* history: root -> the greatest timestamp of the indexes that
              \* getDocIndex has returned to a tool (-1 when none has been returned)
  burst       \* history: path -> [n, fired]: the handleChange calls of the burst
              \* under way or last ended (a burst starts with a handleChange call
              \* that finds no timer for the path), and the timers fired since

docsVars == <<now, disk, dver, docCache, factCache, suggestion, pcApply, wr, applyLoc,
              events, result, successVer, observed, watcher, fsPending, timers,
              awaiting, wLast, onReindex, invd, scheduled, lastNotified,
              errListener, uncaught, notes, burst, returnedMax>>

\* The timers of Node, the notification history and the error handling of the
\* watcher, which only the watcher's own steps change.
watcherAux == <<scheduled, lastNotified, errListener, uncaught, notes, burst>>

\* The application of a pure function last made: its name, arguments, result.
VARIABLE call

vars == <<cacheVars, docsVars, call>>

\* String.prototype.toLowerCase on the query strings of the model.
ToLowerCase(q) == IF q = "Auth" THEN "auth" ELSE q

CacheKeys == [fingerprint : Fingerprints, query : Queries]

\* serializeKey: parts joined by '|'; the optional parts are absent here.
serializeKey(key) == <<key.fingerprint, ToLowerCase(key.query)>>

SKeys == {serializeKey(key) : key \in CacheKeys}

\* key.startsWith(fingerprint + '|')
StartsWithFp(skey, fp) == skey[1] = fp

RECURSIVE SeqFilterOut(_, _)
SeqFilterOut(s, k) ==
  IF s = <<>> THEN <<>>
  ELSE IF Head(s).k = k THEN SeqFilterOut(Tail(s), k)
       ELSE <<Head(s)>> \o SeqFilterOut(Tail(s), k)

CacheHas(c, k) == \E i \in 1..Len(c) : c[i].k = k
CacheVal(c, k) == (CHOOSE i \in 1..Len(c) : c[i].k = k)
CacheValue(c, k) == c[CacheVal(c, k)].v

\* LRUCache.get: a hit makes the entry the most recently used.
LruTouch(c, k) == SeqFilterOut(c, k) \o <<[k |-> k, v |-> CacheValue(c, k)]>>

\* LRUCache.set: insert or update as most recently used, evict the least
\* recently used entry when the size exceeds max.
LruSet(c, k, v) ==
  LET ins == SeqFilterOut(c, k) \o <<[k |-> k, v |-> v]>>
  IN IF Len(ins) > MaxSize THEN Tail(ins) ELSE ins

RECURSIVE DropFingerprint(_, _)
DropFingerprint(c, fp) ==
  IF c = <<>> THEN <<>>
  ELSE IF StartsWithFp(Head(c).k, fp) THEN DropFingerprint(Tail(c), fp)
       ELSE <<Head(c)>> \o DropFingerprint(Tail(c), fp)

\* An invalidateFingerprint that counts every entry of the cache.
InvalidatedCountAll(c, fp) == Len(c)

\* The count that invalidateFingerprint returns: one for each key deleted.
RECURSIVE InvalidatedCount(_, _)
InvalidatedCount(c, fp) ==
  IF c = <<>> THEN 0
  ELSE InvalidatedCount(Tail(c), fp) + (IF StartsWithFp(Head(c).k, fp) THEN 1 ELSE 0)

\* invalidateFingerprint: the cache it leaves and the count it returns.
invalidateFingerprint(c, fp) ==
  [cache |-> DropFingerprint(c, fp), count |-> InvalidatedCount(c, fp)]

IdleCall == [st |-> "idle", key |-> <<>>, req |-> 0, val |-> "none"]

Pending(c) == callSt[c].st = "pending"

CacheInit ==
  /\ cache = <<>>
  /\ inflight = [k \in SKeys |-> 0]
  /\ reqs = <<>>
  /\ callSt = [c \in Callers |-> IdleCall]
  /\ calls = 0
  /\ overlap = {}
  /\ lastFetch = [k \in SKeys |-> "none"]

\* A get() whose finally block leaves the in-flight entry in place.
InflightDeleteSkipped(m, k) == m

\* The in-flight cleanup of get(): this.inflight.delete(cacheKey) in finally.
InflightDelete(m, k) == [m EXCEPT ![k] = 0]

\* SearchCache.get up to its first await: cache hit, in-flight hit, or a new
\* in-flight request with fetchFn invoked.
Get(c, key) ==
  LET k == serializeKey(key)
      others == {d \in Callers \ {c} : Pending(d) /\ callSt[d].key = k}
      noC == {p \in overlap : c \notin p}
  IN
  /\ ~Pending(c)
  /\ calls < MaxCalls
  /\ calls' = calls + 1
  /\ UNCHANGED <<docsVars, call>>
  /\ IF CacheHas(cache, k)
     THEN /\ cache' = LruTouch(cache, k)
          /\ callSt' = [callSt EXCEPT ![c] =
                 [st |-> "resolved", key |-> k, req |-> 0, val |-> CacheValue(cache, k)]]
          /\ overlap' = noC
          /\ UNCHANGED <<inflight, reqs, lastFetch>>
     ELSE IF inflight[k] # 0
     THEN /\ callSt' = [callSt EXCEPT ![c] =
                 [st |-> "pending", key |-> k, req |-> inflight[k], val |-> "none"]]
          /\ overlap' = noC \cup {{c, d} : d \in others}
          /\ UNCHANGED <<cache, inflight, reqs, lastFetch>>
     ELSE /\ reqs' = Append(reqs, [key |-> k, status |-> "pending"])
          /\ inflight' = [inflight EXCEPT ![k] = Len(reqs) + 1]
          /\ callSt' = [callSt EXCEPT ![c] =
                 [st |-> "pending", key |-> k, req |-> Len(reqs) + 1, val |-> "none"]]
          /\ lastFetch' = [lastFetch EXCEPT ![k] = "pending"]
          /\ overlap' = noC \cup {{c, d} : d \in others}
          /\ UNCHANGED cache

\* fetchFn resolved: the continuation of get() after the await (try + finally).
FetchResolve(r, v) ==
  /\ r \in 1..Len(reqs)
  /\ reqs[r].status = "pending"
  /\ cache' = LruSet(cache, reqs[r].key, v)
  /\ reqs' = [reqs EXCEPT ![r].status = "resolved"]
  /\ callSt' = [c \in Callers |->
        IF Pending(c) /\ callSt[c].req = r
        THEN [callSt[c] EXCEPT !.st = "resolved", !.val = v]
        ELSE callSt[c]]
  /\ inflight' = InflightDelete(inflight, reqs[r].key)
  /\ lastFetch' = [lastFetch EXCEPT ![reqs[r].key] = "resolved"]
  /\ UNCHANGED <<calls, overlap, docsVars, call>>

\* fetchFn rejected: the continuation of get() after the await (catch + finally).
FetchReject(r, e) ==
  /\ r \in 1..Len(reqs)
  /\ reqs[r].status = "pending"
  /\ reqs' = [reqs EXCEPT ![r].status = "rejected"]
  /\ callSt' = [c \in Callers |->
        IF Pending(c) /\ callSt[c].req = r
        THEN [callSt[c] EXCEPT !.st = "rejected", !.val = e]
        ELSE callSt[c]]
  /\ inflight' = InflightDelete(inflight, reqs[r].key)
  /\ lastFetch' = [lastFetch EXCEPT ![reqs[r].key] = "rejected"]
  /\ UNCHANGED <<cache, calls, overlap, docsVars, call>>

\* SearchCache.invalidateFingerprint
InvalidateFingerprint(fp) ==
  /\ cache' = invalidateFingerprint(cache, fp).cache
  /\ UNCHANGED <<inflight, reqs, callSt, calls, overlap, lastFetch, docsVars, call>>

\* SearchCache.clear
Clear ==
  /\ cache' = <<>>
  /\ inflight' = [k \in SKeys |-> 0]
  /\ UNCHANGED <<reqs, callSt, calls, overlap, lastFetch, docsVars, call>>

\* The ttl of an LRUCache entry elapses: the entry is no longer served.
TtlExpire(k) ==
  /\ CacheHas(cache, k)
  /\ cache' = SeqFilterOut(cache, k)
  /\ UNCHANGED <<inflight, reqs, callSt, calls, overlap, lastFetch, docsVars, call>>

CacheNext ==
  \/ \E c \in Callers, key \in CacheKeys : Get(c, key)
  \/ \E r \in 1..MaxCalls, v \in ResultVals : FetchResolve(r, v)
  \/ \E r \in 1..MaxCalls, e \in Errors : FetchReject(r, e)
  \/ \E k \in SKeys : TtlExpire(k)
  \/ \E fp \in Fingerprints : InvalidateFingerprint(fp)
  \/ Clear

\* The cache with its callers and invalidation by fingerprint alone: no entry
\* expires and clear() is not called.
InvalidateNext ==
  \/ \E c \in Callers, key \in CacheKeys : Get(c, key)
  \/ \E r \in 1..MaxCalls, v \in ResultVals : FetchResolve(r, v)
  \/ \E r \in 1..MaxCalls, e \in Errors : FetchReject(r, e)
  \/ \E fp \in Fingerprints : InvalidateFingerprint(fp)

\* C1: two get() calls with the same serialized key that were pending at the
\* same time are served by one fetchFn execution (the same in-flight request)
\* and, once both have settled, hold equal results.
C1_SingleflightPair ==
  \A p \in overlap : \A c \in p, d \in p :
     /\ callSt[c].req = callSt[d].req
     /\ (~Pending(c) /\ ~Pending(d)) =>
          (callSt[c].st = callSt[d].st /\ callSt[c].val = callSt[d].val)

\* C8: when fetchFn rejects, every caller waiting on that in-flight request
\* (the one that started it and the ones that joined) rejects with one and the
\* same error, the step stores nothing in the cache, the in-flight entry of
\* the key is gone, and a later get() that misses the cache for that key
\* invokes fetchFn again (a new in-flight request is created for the caller).
C8_RejectStep ==
  \A r \in 1..Len(reqs) :
    (reqs[r].status = "pending" /\ reqs'[r].status = "rejected") =>
      /\ \E e \in Errors : \A c \in Callers :
            (Pending(c) /\ callSt[c].req = r) =>
               (callSt'[c].st = "rejected" /\ callSt'[c].val = e)
      /\ \E c \in Callers : Pending(c) /\ callSt[c].req = r
      /\ cache' = cache
      /\ inflight'[reqs[r].key] = 0

C8_RetryStep ==
  \A c \in Callers :
    (/\ calls' = calls + 1
     /\ ~Pending(c)
     /\ callSt'[c].st = "pending"
     /\ lastFetch[callSt'[c].key] = "rejected") =>
      (Len(reqs') = Len(reqs) + 1 /\ callSt'[c].req = Len(reqs'))

C8_FetchErrorHandling == [][C8_RejectStep /\ C8_RetryStep]_vars

\* C8 witness: a request was rejected with a starter and a joiner both holding
\* the rejection, and a later get() for the same key started a new fetch.
C8_Witness ==
  \E r \in 1..Len(reqs), r2 \in 1..Len(reqs) :
     /\ r < r2
     /\ reqs[r].status = "rejected"
     /\ reqs[r2].key = reqs[r].key
     /\ \E c \in Callers, d \in Callers :
          /\ c # d
          /\ callSt[c].st = "rejected" /\ callSt[c].req = r
          /\ callSt[d].st = "rejected" /\ callSt[d].req = r
          /\ callSt[c].val = callSt[d].val

\* C28: at any moment at most one execution of a fetch function is pending
\* for each serialized key, whatever the interleaving of get() and clear().
C28_OneFetchPerKey ==
  \A k \in SKeys :
    Cardinality({r \in 1..Len(reqs) : reqs[r].key = k /\ reqs[r].status = "pending"}) <= 1

\* clear() has returned since the fetch of request r started: the request is
\* pending and is not the in-flight entry of its key (an entry is deleted by
\* clear() and, for a key, by the get() whose fetch has settled; two fetches
\* of one key are pending only after clear()).
ClearedWhilePending(r) ==
  reqs[r].status = "pending" /\ inflight[reqs[r].key] # r

\* Such a fetch resolves: its result is not in the cache afterwards.
C29_ClearedResolveStep ==
  \A r \in 1..Len(reqs) :
    (ClearedWhilePending(r) /\ reqs'[r].status = "resolved") =>
      ~CacheHas(cache', reqs[r].key)

\* C29, for clear(): a result of a fetch that started before clear() returned
\* is never stored in the cache after that call, so that no later get()
\* serves it as a cache hit.
C29_NoStaleStore == [][C29_ClearedResolveStep]_vars

\* The entries of a cache whose serialized key begins with fp and '|'.
EntriesOf(c, fp) == {i \in 1..Len(c) : StartsWithFp(c[i].k, fp)}

\* A step of invalidateFingerprint(fp): the entries of fp are gone and the
\* others are kept with their values.
C23_InvalidateStep ==
  \A fp \in Fingerprints :
    InvalidateFingerprint(fp) =>
      /\ \A k \in SKeys :
           CacheHas(cache', k) <=> (CacheHas(cache, k) /\ ~StartsWithFp(k, fp))
      /\ \A k \in SKeys :
           CacheHas(cache', k) => CacheValue(cache', k) = CacheValue(cache, k)

\* Whenever invalidateFingerprint(fp) is called it returns the number of the
\* entries of fp.
C23_Count ==
  \A fp \in Fingerprints :
    invalidateFingerprint(cache, fp).count = Cardinality(EntriesOf(cache, fp))

\* A get() for a cached key returns the cached value and creates no request.
C23_ServedStep ==
  \A c \in Callers :
    (/\ calls' = calls + 1
     /\ callSt'[c] # callSt[c]
     /\ CacheHas(cache, callSt'[c].key)) =>
      /\ reqs' = reqs
      /\ callSt'[c].st = "resolved"
      /\ callSt'[c].val = CacheValue(cache, callSt'[c].key)

\* C23: invalidateFingerprint(fp) removes exactly the cached entries whose
\* serialized key begins with fp followed by '|' and returns their number; the
\* entries of every other fingerprint stay cached and are served without a
\* call of a fetch function.
C23_InvalidateExactly == []C23_Count /\ [][C23_InvalidateStep /\ C23_ServedStep]_vars

\* invalidateFingerprint has removed an entry and has left one of another
\* fingerprint in the cache: the result of the latest fetch of a key, which
\* get() stored, is gone (no entry expires or is evicted here), and a key of
\* another fingerprint is cached.
C23_Witness ==
  \E k \in SKeys, other \in SKeys :
    /\ lastFetch[k] = "resolved"
    /\ ~CacheHas(cache, k)
    /\ ~StartsWithFp(other, k[1])
    /\ CacheHas(cache, other)

(***************************************************************************)
(* Part II.  Corpus, doc index, fact index, update agent, watcher          *)
(***************************************************************************)

\* Bounds of the corpus model: the number of file writes plus clock ticks of
\* a behaviour, and the length of a file in lines.
MaxEvents == 2
\* Changes that the FSWatcher reports by itself in a run of the watcher alone.
MaxNotes == 2
\* The mtimes of the files of a corpus are in 0..MaxMtime.
MaxMtime == 1
\* The facts of an index, the facts of an input and the lines of a diff that
\* the fact functions are applied to number MaxFacts at most.
MaxFacts == 2
\* A request body arrives in MaxChunks chunks at most.
MaxChunks == 2
\* The doc index that search_docs reads has MaxSections sections at most.
MaxSections == 2
\* A vector search returns MaxHits results at most.
MaxHits == 4
MaxLines == 6

DocsRoot == "docs"
Roots == {DocsRoot}
Paths == {"R1-CONFIGURATION.md", "R2-CONFIGURATION.md"}

\* A line of a Markdown file or of a diff payload.
\*   p : unified-diff prefix character ("" when the line has none)
\*   t : "h" heading line (# ...), "f" line of the form `subject: object`,
\*       "x" any other text
HLine(txt) == [p |-> "", t |-> "h", s |-> txt, o |-> ""]
FLine(subj, obj) == [p |-> "", t |-> "f", s |-> subj, o |-> obj]
XLine(txt) == [p |-> "", t |-> "x", s |-> txt, o |-> ""]

\* new Date().toISOString() at clock value t, as it appears after "**Added:".
IsoObject(t) ==
  CASE t = 0 -> "** T0"
    [] t = 1 -> "** T1"
    [] t = 2 -> "** T2"
    [] t = 3 -> "** T3"
    [] OTHER -> "** T4"

\* normalizeText: trim, collapse whitespace, lower-case.
normalizeText(v) ==
  CASE v = "Database" -> "database"
    [] v = "PostgreSQL" -> "postgresql"
    [] v = "MySQL" -> "mysql"
    [] v = "**Added" -> "**added"
    [] v = "**Created" -> "**created"
    [] v = "** T0" -> "** t0"
    [] v = "** T1" -> "** t1"
    [] v = "** T2" -> "** t2"
    [] v = "** T3" -> "** t3"
    [] v = "** T4" -> "** t4"
    [] OTHER -> v

\* canonicalizeValue: numbers and booleans are normalised, everything else
\* goes through normalizeText (no object of the model is numeric or boolean).
canonicalizeValue(v) == normalizeText(v)

\* computeFactKey with the fixed predicate "is".
computeFactKey(subject) == <<normalizeText(subject), "is">>

createFact(subject, object, file) ==
  [subject |-> subject, object |-> object, file |-> file]

\* The subject that the pattern captures from a trimmed line: a leading '+'
\* is part of it.
SubjectOf(l) ==
  IF l.p = "+"
  THEN (CASE l.s = "Database" -> "+Database"
          [] l.s = "Cache" -> "+Cache"
          [] OTHER -> "+")
  ELSE l.s

\* extractFactsFromMarkdown: one Fact per line that, trimmed, matches the
\* subject/separator/object pattern; headings and other text yield nothing, and
\* a line that starts with '-' cannot match (the subject may not start with
\* '-').
RECURSIVE extractFactsFromMarkdown(_, _)
extractFactsFromMarkdown(lines, file) ==
  IF lines = <<>> THEN <<>>
  ELSE LET l == Head(lines)
           rest == extractFactsFromMarkdown(Tail(lines), file)
       IN IF l.t = "f" /\ l.p # "-"
          THEN <<createFact(SubjectOf(l), l.o, file)>> \o rest
          ELSE rest

\* An extractFactsFromDiff that leaves the lines as they are.
StripDiffPrefixSkipped(l) == l

\* The prefix stripping of extractFactsFromDiff: drop a leading '+' or ' '.
StripDiffPrefix(l) == IF l.p = "+" \/ l.p = " " THEN [l EXCEPT !.p = ""] ELSE l

extractFactsFromDiff(diff, file) ==
  extractFactsFromMarkdown([i \in 1..Len(diff) |-> StripDiffPrefix(diff[i])], file)

\* parseDocFile: a section starts at a heading and runs to the next heading;
\* it is kept when it has at least one content line.
RECURSIVE ParseFrom(_, _, _, _)
ParseFrom(lines, file, heading, content) ==
  LET flush == IF heading # "" /\ content # <<>>
               THEN <<[file |-> file, heading |-> heading, content |-> content]>>
               ELSE <<>>
  IN IF lines = <<>> THEN flush
     ELSE IF Head(lines).t = "h"
          THEN flush \o ParseFrom(Tail(lines), file, Head(lines).s, <<>>)
          ELSE IF heading # ""
               THEN ParseFrom(Tail(lines), file, heading, Append(content, Head(lines)))
               ELSE ParseFrom(Tail(lines), file, heading, content)

parseDocFile(file, lines) == ParseFrom(lines, file, "", <<>>)

\* The files of a root in directory order.
PathSeq == <<"R1-CONFIGURATION.md", "R2-CONFIGURATION.md">>

\* parseDocumentation: the sections of every existing file of the root.
RECURSIVE ParseFiles(_, _)
ParseFiles(dir, i) ==
  IF i > Len(PathSeq) THEN <<>>
  ELSE (IF dir[PathSeq[i]].exists
        THEN parseDocFile(PathSeq[i], dir[PathSeq[i]].lines)
        ELSE <<>>) \o ParseFiles(dir, i + 1)

parseDocumentation(dir) == ParseFiles(dir, 1)

\* The Markdown files that a corpus of the model may hold, in the order of
\* localeCompare on their paths.
TreeSeq == <<"guides/intro.md", "guides/R2-GUIDE.md", "mnt/project/R1-LEGACY.md",
             "node_modules/R1-PKG.md", "NOTES.md", "R1-CONFIGURATION.md",
             "R2-CONFIGURATION.md">>

TreePaths == {TreeSeq[i] : i \in 1..Len(TreeSeq)}

\* The directory of a file, relative to docsPath ("" is docsPath itself).
DirName(path) ==
  CASE path \in {"guides/intro.md", "guides/R2-GUIDE.md"} -> "guides"
    [] path = "mnt/project/R1-LEGACY.md" -> "mnt/project"
    [] path = "node_modules/R1-PKG.md" -> "node_modules"
    [] OTHER -> ""

\* entry.match(/^R\d+-.*\.md$/) on the file names of the model.
MatchesRelease(path) == path \notin {"guides/intro.md", "NOTES.md"}

\* The entries that scanDirectory skips: hidden, node_modules, build, dist.
SkippedDir(d) == d = "node_modules"

HasFile(dir, path) == path \in DOMAIN dir /\ dir[path].exists

\* The files that scanDirectory(start) pushes; no .docignore in the corpus.
scanDirectory(dir, start) ==
  {path \in TreePaths :
     /\ HasFile(dir, path)
     /\ IF start = "mnt/project" THEN DirName(path) = start
        ELSE ~SkippedDir(DirName(path))
     /\ MatchesRelease(path) \/ DirName(path) = start}

\* The files of the fingerprint: those of the legacy path, or when there is
\* none those of the scan from docsPath.
FingerprintFiles(dir) ==
  LET legacy == scanDirectory(dir, "mnt/project")
  IN IF legacy # {} THEN legacy ELSE scanDirectory(dir, "")

\* A hash that takes in the path of a file only.
HashUpdatePathOnly(path, file) == <<path, 0>>

\* hash.update(file.path); hash.update(file.mtime.toString())
HashUpdate(path, file) == <<path, file.mtime>>

\* calculateFingerprint: what the hash takes in, the (path, mtime) pair of
\* every file of the fingerprint in the order of the sort; SHA-256 is taken
\* to be injective, and the one root that ends the input is left out.
RECURSIVE FingerprintFrom(_, _, _)
FingerprintFrom(dir, files, i) ==
  IF i > Len(TreeSeq) THEN <<>>
  ELSE (IF TreeSeq[i] \in files
        THEN <<HashUpdate(TreeSeq[i], dir[TreeSeq[i]])>>
        ELSE <<>>) \o FingerprintFrom(dir, files, i + 1)

calculateFingerprint(dir) == FingerprintFrom(dir, FingerprintFiles(dir), 1)

\* ---- fact index (analysis/fact-index.ts) ----
\* FactIndex.byKey as an insertion-ordered sequence of entries
\* [key, values], values an insertion-ordered sequence of [val, facts].

EntryPos(index, key) ==
  IF \E i \in 1..Len(index) : index[i].key = key
  THEN CHOOSE i \in 1..Len(index) : index[i].key = key
  ELSE 0

ValuePos(values, val) ==
  IF \E i \in 1..Len(values) : values[i].val = val
  THEN CHOOSE i \in 1..Len(values) : values[i].val = val
  ELSE 0

insertFact(index, fact) ==
  LET key == computeFactKey(fact.subject)
      valueKey == canonicalizeValue(fact.object)
      e == EntryPos(index, key)
      withEntry == IF e = 0 THEN Append(index, [key |-> key, values |-> <<>>])
                   ELSE index
      ei == IF e = 0 THEN Len(index) + 1 ELSE e
      vals == withEntry[ei].values
      vi == ValuePos(vals, valueKey)
      newVals == IF vi = 0
                 THEN Append(vals, [val |-> valueKey, facts |-> <<fact>>])
                 ELSE [vals EXCEPT ![vi].facts = Append(@, fact)]
  IN [withEntry EXCEPT ![ei].values = newVals]

RECURSIVE InsertAll(_, _)
InsertAll(index, facts) ==
  IF facts = <<>> THEN index
  ELSE InsertAll(insertFact(index, Head(facts)), Tail(facts))

RECURSIVE FactsOfSections(_)
FactsOfSections(sections) ==
  IF sections = <<>> THEN <<>>
  ELSE extractFactsFromMarkdown(Head(sections).content, Head(sections).file)
         \o FactsOfSections(Tail(sections))

\* The index that buildFactIndex makes of the sections of a doc index.
FactIndexOf(sections) == InsertAll(<<>>, FactsOfSections(sections))

\* A comparison of value keys that takes every value of the entry as another
\* value.
OtherValueAlways(otherValue, valueKey) == TRUE

\* otherValue !== valueKey
OtherValue(otherValue, valueKey) == otherValue # valueKey

\* The records reported for one input fact against one entry's value lists.
RECURSIVE ConflictsIn(_, _, _)
ConflictsIn(values, valueKey, f) ==
  IF values = <<>> THEN <<>>
  ELSE (IF OtherValue(Head(values).val, valueKey)
        THEN [i \in 1..Len(Head(values).facts) |->
                [existing |-> Head(values).facts[i], conflicting |-> f]]
        ELSE <<>>) \o ConflictsIn(Tail(values), valueKey, f)

RECURSIVE findConflicts(_, _)
findConflicts(index, facts) ==
  IF facts = <<>> THEN <<>>
  ELSE LET f == Head(facts)
           e == EntryPos(index, computeFactKey(f.subject))
       IN (IF e = 0 THEN <<>>
           ELSE ConflictsIn(index[e].values, canonicalizeValue(f.object), f))
          \o findConflicts(index, Tail(facts))

RECURSIVE findDuplicates(_, _)
findDuplicates(index, facts) ==
  IF facts = <<>> THEN <<>>
  ELSE LET f == Head(facts)
           e == EntryPos(index, computeFactKey(f.subject))
           vi == IF e = 0 THEN 0
                 ELSE ValuePos(index[e].values, canonicalizeValue(f.object))
       IN (IF vi = 0 THEN <<>>
           ELSE [i \in 1..Len(index[e].values[vi].facts) |->
                   [existing |-> index[e].values[vi].facts[i], duplicate |-> f]])
          \o findDuplicates(index, Tail(facts))

\* ---- state of the corpus model ----

\* DEFAULT_TTL_MS, in clock ticks.
DEFAULT_TTL_MS == 1

NoFile == [exists |-> FALSE, lines |-> <<>>, mtime |-> 0]
File(lines, t) == [exists |-> TRUE, lines |-> lines, mtime |-> t]

ConfigPg == <<HLine("Config"), FLine("Database", "PostgreSQL")>>
ConfigMy == <<HLine("Config"), FLine("Database", "MySQL")>>

\* The directory of a root (DocsRoot is the one root of the model).
DirOf(root, d) == d

\* What another process may write into a file of DocsRoot.
EditContents == {ConfigMy}

\* intent.context values of the model.
Contexts == {<<>>, <<FLine("Database", "MySQL")>>}

NoIndexEntry == [present |-> FALSE, sections |-> <<>>, fingerprint |-> <<>>,
                 timestamp |-> 0, fileCount |-> 0, expiresAt |-> 0,
                 ver |-> 0, old |-> FALSE]
NoFactEntry == [present |-> FALSE, index |-> <<>>, ver |-> 0]
NoSuggestion == [action |-> "none", targetPath |-> "", diff |-> <<>>,
                 duplicates |-> <<>>, conflicts |-> <<>>, blocked |-> FALSE]
NoResult == [status |-> "none", reindexed |-> FALSE, err |-> "", n |-> 0]
NoWrite == [path |-> "", action |-> "none", pre |-> NoFile, toWrite |-> <<>>]
\* force and n: the force option and the number of conflicts of the preflight;
\* invDoc, invFact: the call has invalidated the doc / fact index cache;
\* fileNew, fileSame: at its end the target held the complete new content /
\* was as before the call.  forced: the applications with force of the
\* suggestion last made that have returned success in a row (2: two or more).
NoApply == [force |-> FALSE, n |-> 0, invDoc |-> FALSE, invFact |-> FALSE,
            fileNew |-> FALSE, fileSame |-> TRUE, forced |-> 0]
NoChange == ""
\* No pure function has been applied.
NoCall == [fn |-> "none"]
\* No entry of debounceTimers for a path.
NoTimer == [type |-> NoChange, due |-> 0]
\* DEFAULT_OPTIONS.debounceMs, in clock ticks
debounceMs == 1
\* The times at which a timer set within the time of the model can be due.
Times == 0..(MaxEvents + debounceMs)

DocsInit ==
  /\ now = 0
  /\ disk = [f \in Paths |-> IF f = "R1-CONFIGURATION.md" THEN File(ConfigPg, 0) ELSE NoFile]
  /\ dver = 0
  /\ docCache = [r \in Roots |-> NoIndexEntry]
  /\ factCache = [r \in Roots |-> NoFactEntry]
  /\ suggestion = NoSuggestion
  /\ pcApply = "idle"
  /\ wr = NoWrite
  /\ applyLoc = NoApply
  /\ events = <<>>
  /\ result = NoResult
  /\ successVer = 0
  /\ observed = [inWrite |-> FALSE, whole |-> TRUE]
  /\ watcher = "undefined"
  /\ fsPending = [f \in Paths |-> NoChange]
  /\ timers = [f \in Paths |-> NoTimer]
  /\ awaiting = {}
  /\ wLast = [kind |-> "", file |-> ""]
  /\ onReindex = "none"
  /\ invd = [r \in Roots |-> FALSE]
  /\ scheduled = {}
  /\ lastNotified = [f \in Paths |-> 0]
  /\ errListener = FALSE
  /\ uncaught = "none"
  /\ notes = 0
  /\ returnedMax = [r \in Roots |-> -1]
  /\ burst = [f \in Paths |-> [n |-> 0, fired |-> 0]]

\* ---- DocIndexManager (utils/doc-index.ts) ----

\* buildIndex + the CacheEntry that getIndex makes of it; ver and old are
\* history fields: the disk version parsed, and whether an invalidate() call
\* has been made on the entry.
buildIndex(dir, t, dv) ==
  LET sections == parseDocumentation(dir)
  IN [present |-> TRUE, sections |-> sections,
      fingerprint |-> calculateFingerprint(dir),
      timestamp |-> t, fileCount |-> Len(sections),
      expiresAt |-> t + DEFAULT_TTL_MS, ver |-> dv, old |-> FALSE]

\* A getIndex that never looks into the cache.
getIndexAlwaysBuilds(dc, root, d, t, dv, enableCache) ==
  LET built == buildIndex(DirOf(root, d), t, dv)
  IN [dc |-> IF enableCache THEN [dc EXCEPT ![root] = built] ELSE dc,
      e |-> built]

\* getIndex: the cached entry when caching is enabled and it has not expired,
\* else a fresh index, stored when caching is enabled.
\* Yields the new cache and the entry returned.
getIndex(dc, root, d, t, dv, enableCache) ==
  IF enableCache /\ dc[root].present /\ t < dc[root].expiresAt
  THEN [dc |-> dc, e |-> dc[root]]
  ELSE LET built == buildIndex(DirOf(root, d), t, dv)
       IN [dc |-> IF enableCache THEN [dc EXCEPT ![root] = built] ELSE dc,
           e |-> built]

\* An invalidate() that leaves the entry in the map.
DocCacheDeleteSkipped(dc, root) == dc

\* this.cache.delete(docsPath) of invalidate()
DocCacheDelete(dc, root) == [dc EXCEPT ![root] = NoIndexEntry]

\* invalidate(docsPath); the entry is first marked as invalidated (history).
invalidate(dc, root) ==
  DocCacheDelete([dc EXCEPT ![root].old = dc[root].present], root)

\* ---- fact-index cache (utils/fact-index-cache.ts) ----

\* getFactIndex: the cached index, else buildFactIndex (which reads the doc
\* index through getDocIndex) stored in the cache.  builtAt is written by the
\* code and read nowhere; ver is the history field of the doc index used.
getFactIndex(fc, dc, root, d, t, dv) ==
  IF fc[root].present
  THEN [fc |-> fc, dc |-> dc, f |-> fc[root]]
  ELSE LET g == getIndex(dc, root, d, t, dv, TRUE)
           ent == [present |-> TRUE, index |-> FactIndexOf(g.e.sections),
                   ver |-> g.e.ver]
       IN [fc |-> [fc EXCEPT ![root] = ent], dc |-> g.dc, f |-> ent]

\* An invalidateFactIndex that leaves the entry in the map.
FactCacheDeleteSkipped(fc, root) == fc

\* invalidateFactIndex: cache.delete(projectRoot)
invalidateFactIndex(fc, root) == [fc EXCEPT ![root] = NoFactEntry]

\* ---- DocUpdateAgent (rag/doc-update.ts) ----

\* String.prototype.includes on the lower-cased intent texts of the model.
Includes(text, kw) == text = "Update config" /\ kw = "config"

IntentTexts == {"Update config"}
Intents == [intent : IntentTexts, context : Contexts,
            targetFile : {"", "R2-CONFIGURATION.md"}, targetRelease : {""}]

RelPrefix(intent) == IF intent.targetRelease # "" THEN intent.targetRelease ELSE "R1"

\* `${release}-${suffix}.md`
DocFileName(rel, suffix) ==
  IF suffix = "CONFIGURATION"
  THEN (IF rel = "R2" THEN "R2-CONFIGURATION.md" ELSE "R1-CONFIGURATION.md")
  ELSE "R1-NOTES.md"

inferTargetFile(intent) ==
  IF Includes(intent.intent, "architecture") THEN DocFileName(RelPrefix(intent), "ARCHITECTURE")
  ELSE IF Includes(intent.intent, "service") THEN DocFileName(RelPrefix(intent), "SERVICE_CONTRACTS")
  ELSE IF Includes(intent.intent, "config") THEN DocFileName(RelPrefix(intent), "CONFIGURATION")
  ELSE IF Includes(intent.intent, "migration") THEN DocFileName(RelPrefix(intent), "MIGRATION_NOTES")
  ELSE DocFileName(RelPrefix(intent), "NOTES")

\* "## Update: <intent>", "**Added:** <timestamp>", <context>
generateUpdateDiff(intent, t) ==
  <<HLine("Update: Update config"), FLine("**Added", IsoObject(t))>> \o intent.context

\* "# <intent>", "**Created:** <timestamp>", <context>
generateNewDocContent(intent, t) ==
  <<HLine("Update config"), FLine("**Created", IsoObject(t))>> \o intent.context

\* applyDiff: existing + "\n" + diff
applyDiff(existing, diff) == existing \o diff

\* blocked taken from the duplicates instead of the conflicts.
BlockedByDuplicates(conflicts, duplicates) == Len(duplicates) > 0

\* blocked: (conflicts && conflicts.length > 0) || false
Blocked(conflicts, duplicates) == Len(conflicts) > 0

\* A preflight that lets a single conflict pass.
ApplyBlockedAboveOne(n, force) == n > 1 /\ ~force

\* conflicts.length > 0 && !(options && options.force)
ApplyBlocked(n, force) == n > 0 /\ ~force

\* The emit calls in the opposite order.
EmittedEventsSwapped(action) ==
  <<"reindex_triggered", IF action = "create" THEN "doc_created" ELSE "doc_updated">>

\* The events of a successful applyUpdate in the order of the emit calls.
EmittedEvents(action) ==
  <<IF action = "create" THEN "doc_created" ELSE "doc_updated", "reindex_triggered">>

\* What a listener of the agent does when its event is emitted.
ListenerKinds == {"none", "throw", "read"}

\* A listener that calls getDocIndex and getFactIndex for the root.
ListenerReads(dc, fc, d, t, dv) ==
  LET g == getIndex(dc, DocsRoot, d, t, dv, TRUE)
      h == getFactIndex(fc, g.dc, DocsRoot, d, t, dv)
  IN [dc |-> h.dc, fc |-> h.fc]

\* The chokidar notification that a change of a file gives rise to.
ChangeType(pre, post) ==
  IF ~pre.exists /\ post.exists THEN "add"
  ELSE IF pre.exists /\ ~post.exists THEN "unlink"
  ELSE "change"

ChangeTypes == {"add", "change", "unlink"}

\* chokidar records the change of a file when the watcher has been started.
Notify(pending, w, path, type) ==
  IF w = "chokidar" THEN [pending EXCEPT ![path] = type] ELSE pending

\* suggestUpdate
SuggestUpdate(intent) ==
  LET targetFile == IF intent.targetFile # "" THEN intent.targetFile
                    ELSE inferTargetFile(intent)
      exists == disk[targetFile].exists
      action == IF exists THEN "update" ELSE "create"
      diff == IF exists THEN generateUpdateDiff(intent, now)
              ELSE generateNewDocContent(intent, now)
      proposedFacts == extractFactsFromDiff(diff, targetFile)
      g == getFactIndex(factCache, docCache, DocsRoot, disk, now, dver)
      dups == findDuplicates(g.f.index, proposedFacts)
      cons == findConflicts(g.f.index, proposedFacts)
      duplicates == [i \in 1..Len(dups) |->
                       [file |-> dups[i].existing.file,
                        object |-> dups[i].existing.object,
                        subject |-> dups[i].existing.subject]]
      conflicts == [i \in 1..Len(cons) |->
                       [file |-> cons[i].existing.file,
                        existing |-> cons[i].existing.object,
                        incoming |-> cons[i].conflicting.object,
                        subject |-> cons[i].existing.subject]]
  IN
  /\ pcApply = "idle"
  /\ suggestion' = [action |-> action, targetPath |-> targetFile, diff |-> diff,
                    duplicates |-> duplicates, conflicts |-> conflicts,
                    blocked |-> Blocked(conflicts, duplicates)]
  /\ docCache' = g.dc
  /\ factCache' = g.fc
  /\ applyLoc' = [applyLoc EXCEPT !.forced = 0]
  /\ UNCHANGED <<cacheVars, call, returnedMax, now, disk, dver, pcApply, wr, events, result, successVer,
                 observed, fsPending, timers, awaiting, wLast, watcher, onReindex, invd, watcherAux>>

\* applyUpdate from its entry to the point where writeFileSync has opened (and
\* so truncated or created) the target; the call ends here when the preflight
\* blocks it or readFileSync throws.
ApplyStart(force) ==
  LET sug == suggestion
      path == sug.targetPath
      proposedFacts == extractFactsFromDiff(sug.diff, path)
      g == getFactIndex(factCache, docCache, DocsRoot, disk, now, dver)
      n == Len(findConflicts(g.f.index, proposedFacts))
      pre == disk[path]
      updated == IF sug.action = "create" THEN sug.diff
                 ELSE applyDiff(pre.lines, sug.diff)
      loc == [force |-> force, n |-> n, invDoc |-> FALSE, invFact |-> FALSE,
              fileNew |-> FALSE, fileSame |-> TRUE, forced |-> applyLoc.forced]
  IN
  /\ pcApply = "idle"
  /\ sug.action # "none"
  /\ docCache' = g.dc
  /\ factCache' = g.fc
  /\ events' = <<>>
  /\ applyLoc' = IF ApplyBlocked(n, force) \/ (sug.action = "update" /\ ~pre.exists)
                 THEN [loc EXCEPT !.forced = 0] ELSE loc
  /\ IF ApplyBlocked(n, force)
     THEN /\ result' = [status |-> "error", reindexed |-> FALSE, err |-> "conflict", n |-> n]
          /\ UNCHANGED <<disk, pcApply, wr>>
     ELSE IF sug.action = "update" /\ ~pre.exists
     THEN /\ result' = [status |-> "error", reindexed |-> FALSE, err |-> "io", n |-> 0]
          /\ UNCHANGED <<disk, pcApply, wr>>
     ELSE /\ dver + now < MaxEvents
          /\ Len(updated) <= MaxLines
          /\ disk' = [disk EXCEPT ![path] = File(<<>>, now)]
          /\ pcApply' = "writing"
          /\ wr' = [path |-> path, action |-> sug.action, pre |-> pre, toWrite |-> updated]
          /\ result' = NoResult
  /\ UNCHANGED <<cacheVars, call, returnedMax, now, dver, suggestion, successVer, observed, fsPending,
                 timers, awaiting, wLast, watcher, onReindex, invd, watcherAux>>

\* The rest of applyUpdate: writeFileSync writes all of the content, or fails
\* and leaves the truncated file; then the emits and invalidations.
ApplyFinish(writeOk, lstDoc, lstRe) ==
  LET path == wr.path
      dv == dver + 1
      written == IF writeOk THEN File(wr.toWrite, now) ELSE File(<<>>, now)
      d1 == [disk EXCEPT ![path] = written]
      evs == EmittedEvents(wr.action)
      c1 == IF lstDoc = "read" THEN ListenerReads(docCache, factCache, d1, now, dv)
            ELSE [dc |-> docCache, fc |-> factCache]
      dc2 == invalidate(c1.dc, DocsRoot)
      c2 == IF lstRe = "read" THEN ListenerReads(dc2, c1.fc, d1, now, dv)
            ELSE [dc |-> dc2, fc |-> c1.fc]
      fc3 == invalidateFactIndex(c2.fc, DocsRoot)
      stage == IF ~writeOk THEN 0
               ELSE IF lstDoc = "throw" THEN 1
               ELSE IF lstRe = "throw" THEN 2
               ELSE 3
  IN
  /\ pcApply = "writing"
  /\ pcApply' = "idle"
  /\ disk' = d1
  /\ dver' = dv
  /\ fsPending' = Notify(fsPending, watcher, path, ChangeType(wr.pre, written))
  /\ wr' = NoWrite
  /\ events' = SubSeq(evs, 1, IF stage >= 2 THEN 2 ELSE stage)
  /\ docCache' = IF stage <= 1 THEN c1.dc ELSE c2.dc
  /\ factCache' = IF stage <= 1 THEN c1.fc ELSE IF stage = 2 THEN c2.fc ELSE fc3
  /\ invd' = IF stage >= 2 /\ c1.dc[DocsRoot].present
             THEN [invd EXCEPT ![DocsRoot] = TRUE] ELSE invd
  /\ applyLoc' = [applyLoc EXCEPT !.invDoc = stage >= 2, !.invFact = stage = 3,
                                  !.fileNew = writeOk, !.fileSame = FALSE,
                                  !.forced = IF stage < 3 \/ ~applyLoc.force THEN 0
                                             ELSE IF @ = 0 THEN 1 ELSE 2]
  /\ result' = IF stage = 3
               THEN [status |-> "success", reindexed |-> TRUE, err |-> "", n |-> 0]
               ELSE [status |-> "error", reindexed |-> FALSE,
                     err |-> IF stage = 0 THEN "io" ELSE "listener", n |-> 0]
  /\ successVer' = IF stage = 3 THEN dv ELSE successVer
  /\ observed' = [inWrite |-> FALSE, whole |-> TRUE]
  /\ UNCHANGED <<cacheVars, call, returnedMax, now, suggestion, timers, awaiting, wLast, watcher, onReindex, watcherAux>>

\* The caches at the moment applyUpdate emits reindex_triggered: the file is
\* written, the listeners of the first event have run, invalidateDocIndex has
\* been called and invalidateFactIndex has not.
AtReindexTriggered(lstDoc) ==
  LET d1 == [disk EXCEPT ![wr.path] = File(wr.toWrite, now)]
      c1 == IF lstDoc = "read"
            THEN ListenerReads(docCache, factCache, d1, now, dver + 1)
            ELSE [dc |-> docCache, fc |-> factCache]
  IN [dc |-> invalidate(c1.dc, DocsRoot), fc |-> c1.fc, disk |-> d1]

\* ---- callers of the index caches ----

\* A tool calls getDocIndex(root, {enableCache}).
ReadDocIndex(root, enableCache) ==
  LET g == getIndex(docCache, root, disk, now, dver, enableCache)
  IN
  /\ pcApply = "idle"
  /\ docCache' = g.dc
  /\ returnedMax' = [returnedMax EXCEPT ![root] =
                       IF g.e.timestamp > @ THEN g.e.timestamp ELSE @]
  /\ UNCHANGED <<cacheVars, call, now, disk, dver, factCache, suggestion, pcApply, wr, applyLoc, events,
                 result, successVer, observed, fsPending, timers, awaiting, wLast,
                 watcher, onReindex, invd, watcherAux>>

\* A caller of getFactIndex(root).
ReadFactIndex(root) ==
  LET g == getFactIndex(factCache, docCache, root, disk, now, dver)
  IN
  /\ pcApply = "idle"
  /\ docCache' = g.dc
  /\ factCache' = g.fc
  /\ UNCHANGED <<cacheVars, call, returnedMax, now, disk, dver, suggestion, pcApply, wr, applyLoc, events, result,
                 successVer, observed, fsPending, timers, awaiting, wLast,
                 watcher, onReindex, invd, watcherAux>>

\* invalidateDocIndex(root) called from outside (the refresh tool, a test).
InvalidateDocIndex(root) ==
  /\ pcApply = "idle"
  /\ docCache' = invalidate(docCache, root)
  /\ invd' = [invd EXCEPT ![root] = @ \/ docCache[root].present]
  /\ UNCHANGED <<cacheVars, call, returnedMax, now, disk, dver, factCache, suggestion, pcApply, wr, applyLoc, events,
                 result, successVer, observed, fsPending, timers, awaiting,
                 wLast, watcher, onReindex, watcherAux>>

\* cleanExpired, run by the periodic sweep.
CleanExpired ==
  /\ pcApply = "idle"
  /\ \E r \in Roots : docCache[r].present /\ now >= docCache[r].expiresAt
  /\ docCache' = [r \in Roots |->
        IF docCache[r].present /\ now >= docCache[r].expiresAt
        THEN NoIndexEntry ELSE docCache[r]]
  /\ UNCHANGED <<cacheVars, call, returnedMax, now, disk, dver, factCache, suggestion, pcApply, wr, applyLoc, events,
                 result, successVer, observed, fsPending, timers, awaiting,
                 wLast, watcher, onReindex, invd, watcherAux>>

\* The clock advances.
Tick ==
  /\ dver + now < MaxEvents
  /\ pcApply = "idle"
  /\ now' = now + 1
  /\ UNCHANGED <<cacheVars, call, returnedMax, disk, dver, docCache, factCache, suggestion, pcApply, wr, applyLoc,
                 events, result, successVer, observed, fsPending, timers,
                 awaiting, wLast, watcher, onReindex, invd, watcherAux>>

\* ---- other processes working on the files of DocsRoot ----

ExternalWrite(path, lines) ==
  /\ dver + now < MaxEvents
  /\ disk' = [disk EXCEPT ![path] = File(lines, now)]
  /\ dver' = dver + 1
  /\ fsPending' = Notify(fsPending, watcher, path, ChangeType(disk[path], File(lines, now)))
  /\ UNCHANGED <<cacheVars, call, returnedMax, now, docCache, factCache, suggestion, pcApply, wr, applyLoc, events,
                 result, successVer, observed, timers, awaiting, wLast,
                 watcher, onReindex, invd, watcherAux>>

ExternalDelete(path) ==
  /\ dver + now < MaxEvents
  /\ disk[path].exists
  /\ disk' = [disk EXCEPT ![path] = NoFile]
  /\ dver' = dver + 1
  /\ fsPending' = Notify(fsPending, watcher, path, "unlink")
  /\ UNCHANGED <<cacheVars, call, returnedMax, now, docCache, factCache, suggestion, pcApply, wr, applyLoc, events,
                 result, successVer, observed, timers, awaiting, wLast,
                 watcher, onReindex, invd, watcherAux>>

\* Another process reads the target of an applyUpdate write under way; whole
\* tells whether what it saw was the complete content from before that write
\* or the complete new content.
ExternalRead(path) ==
  /\ pcApply = "writing"
  /\ path = wr.path
  /\ observed' =
       [inWrite |-> TRUE,
        whole |-> \/ (disk[path].exists = wr.pre.exists /\ disk[path].lines = wr.pre.lines)
                  \/ (disk[path].exists /\ disk[path].lines = wr.toWrite)]
  /\ UNCHANGED <<cacheVars, call, returnedMax, now, disk, dver, docCache, factCache, suggestion, pcApply, wr, applyLoc,
                 events, result, successVer, fsPending, timers, awaiting,
                 wLast, watcher, onReindex, invd, watcherAux>>

\* ---- DocsWatcher (watchers/docs-watcher.ts) ----

\* A callback that emits doc_updated for every change.
WatcherEventUpdated(type) == "doc_updated"

\* The event emitted for a change type.
WatcherEvent(type) ==
  IF type = "add" THEN "doc_indexed"
  ELSE IF type = "change" THEN "doc_updated"
  ELSE "doc_removed"

\* A clearTimeout that leaves the timer scheduled.
clearTimeoutSkipped(sched, file, t) == sched

\* clearTimeout(existing): the timer that debounceTimers holds for the file is
\* no longer scheduled (no effect when there is none).
clearTimeout(sched, file, t) ==
  sched \ {[file |-> file, type |-> t.type, due |-> t.due]}

\* setTimeout(callback, debounceMs) at time t for a change of a file.
setTimeout(file, type, t) == [file |-> file, type |-> type, due |-> t + debounceMs]

\* isRunning()
isRunning(w) == w # "undefined"

\* chokidar delivers a notification: handleChange clears the timer of the path
\* and sets a new one.
HandleChange(path) ==
  LET tm == setTimeout(path, fsPending[path], now)
  IN
  /\ pcApply = "idle"
  /\ uncaught = "none"
  /\ watcher = "chokidar"
  /\ fsPending[path] # NoChange
  /\ scheduled' = clearTimeout(scheduled, path, timers[path]) \cup {tm}
  /\ timers' = [timers EXCEPT ![path] = [type |-> tm.type, due |-> tm.due]]
  /\ fsPending' = [fsPending EXCEPT ![path] = NoChange]
  /\ lastNotified' = [lastNotified EXCEPT ![path] = now]
  /\ burst' = [burst EXCEPT ![path] =
                 IF timers[path] = NoTimer THEN [n |-> 1, fired |-> 0]
                 ELSE [n |-> @.n + 1, fired |-> @.fired]]
  /\ UNCHANGED <<cacheVars, call, returnedMax, now, disk, dver, docCache, factCache, suggestion, pcApply, wr, applyLoc,
                 events, result, successVer, observed, awaiting, wLast,
                 watcher, onReindex, invd, errListener, uncaught, notes>>

\* A debounce timer that is due fires: the callback deletes the entry of the
\* file from debounceTimers and runs up to `await this.onReindex()`, or to its
\* end when there is no onReindex callback.
TimerFire(path) ==
  /\ pcApply = "idle"
  /\ uncaught = "none"
  /\ \E tm \in scheduled :
       /\ tm.file = path
       /\ tm.due <= now
       /\ scheduled' = scheduled \ {tm}
       /\ IF onReindex = "none"
          THEN /\ wLast' = [kind |-> WatcherEvent(tm.type), file |-> path]
               /\ UNCHANGED awaiting
          ELSE /\ awaiting' = awaiting \cup {tm}
               /\ UNCHANGED wLast
  /\ timers' = [timers EXCEPT ![path] = NoTimer]
  /\ docCache' = invalidate(docCache, DocsRoot)
  /\ invd' = [invd EXCEPT ![DocsRoot] = @ \/ docCache[DocsRoot].present]
  /\ burst' = [burst EXCEPT ![path].fired = @ + 1]
  /\ UNCHANGED <<cacheVars, call, returnedMax, now, disk, dver, factCache, suggestion, pcApply, wr, applyLoc, events,
                 result, successVer, observed, fsPending, watcher, onReindex,
                 lastNotified, errListener, uncaught, notes>>

\* onReindex has resolved: the callback resumes and emits its event.
ReindexDone(cb) ==
  /\ pcApply = "idle"
  /\ uncaught = "none"
  /\ cb \in awaiting
  /\ awaiting' = awaiting \ {cb}
  /\ wLast' = [kind |-> WatcherEvent(cb.type), file |-> cb.file]
  /\ UNCHANGED <<cacheVars, call, returnedMax, now, disk, dver, docCache, factCache, suggestion, pcApply, wr, applyLoc,
                 events, result, successVer, observed, fsPending, timers,
                 watcher, onReindex, invd, watcherAux>>

\* The FSWatcher reports a change of a watched file (its add, change and
\* unlink listeners are those of start()).
ChokidarNotify(path, type) ==
  /\ uncaught = "none"
  /\ watcher = "chokidar"
  /\ notes < MaxNotes
  /\ notes' = notes + 1
  /\ fsPending' = Notify(fsPending, watcher, path, type)
  /\ UNCHANGED <<cacheVars, call, returnedMax, now, disk, dver, docCache, factCache, suggestion, pcApply, wr, applyLoc,
                 events, result, successVer, observed, timers, awaiting, wLast,
                 watcher, onReindex, invd, scheduled, lastNotified, errListener,
                 uncaught, burst>>

\* handleError: this.emit("error", error).  An EventEmitter without a listener
\* of `error` throws the error out of emit; how tells where it then ends up.
\* Yields the event last emitted and the escape.
handleError(lst, last, how) ==
  IF lst
  THEN [wLast |-> [kind |-> "error", file |-> ""], uncaught |-> "none"]
  ELSE [wLast |-> last, uncaught |-> how]

\* The FSWatcher raises an error: its `error` listener is handleError, and
\* what handleError throws leaves the listener.
WatcherError ==
  LET h == handleError(errListener, wLast, "uncaughtException")
  IN
  /\ uncaught = "none"
  /\ watcher = "chokidar"
  /\ wLast' = h.wLast
  /\ uncaught' = h.uncaught
  /\ UNCHANGED <<cacheVars, call, returnedMax, now, disk, dver, docCache, factCache, suggestion, pcApply, wr, applyLoc,
                 events, result, successVer, observed, fsPending, timers, awaiting,
                 watcher, onReindex, invd, scheduled, lastNotified, errListener, notes, burst>>

\* onReindex has rejected: the catch block of the timer callback calls
\* handleError, and what handleError throws rejects the promise of the
\* callback, which nothing awaits.
ReindexReject(cb) ==
  LET h == handleError(errListener, wLast, "unhandledRejection")
  IN
  /\ uncaught = "none"
  /\ cb \in awaiting
  /\ awaiting' = awaiting \ {cb}
  /\ wLast' = h.wLast
  /\ uncaught' = h.uncaught
  /\ UNCHANGED <<cacheVars, call, returnedMax, now, disk, dver, docCache, factCache, suggestion, pcApply, wr, applyLoc,
                 events, result, successVer, observed, fsPending, timers,
                 watcher, onReindex, invd, scheduled, lastNotified, errListener, notes, burst>>

\* A stop() that leaves the entries in debounceTimers.
debounceTimersClearSkipped(tms) == tms

\* this.debounceTimers.clear()
debounceTimersClear(tms) == [f \in Paths |-> NoTimer]

\* stop() up to `await this.watcher.close()`: every timer of debounceTimers is
\* cleared and the map emptied; close() has removed the listeners of the
\* FSWatcher, which delivers nothing from then on.
StopStart ==
  /\ uncaught = "none"
  /\ watcher = "chokidar"
  /\ scheduled' = {tm \in scheduled :
                     [type |-> tm.type, due |-> tm.due] # timers[tm.file]}
  /\ timers' = debounceTimersClear(timers)
  /\ fsPending' = [f \in Paths |-> NoChange]
  /\ watcher' = "closed"
  /\ UNCHANGED <<cacheVars, call, returnedMax, now, disk, dver, docCache, factCache, suggestion, pcApply, wr, applyLoc,
                 events, result, successVer, observed, awaiting, wLast,
                 onReindex, invd, lastNotified, errListener, uncaught, notes, burst>>

\* close() has resolved: stop() sets this.watcher = undefined and resolves.
StopDone ==
  /\ uncaught = "none"
  /\ watcher = "closed"
  /\ watcher' = "undefined"
  /\ UNCHANGED <<cacheVars, call, returnedMax, now, disk, dver, docCache, factCache, suggestion, pcApply, wr, applyLoc,
                 events, result, successVer, observed, fsPending, timers, awaiting,
                 wLast, onReindex, invd, watcherAux>>

\* start(): a new FSWatcher unless the watcher is already started.
Start ==
  /\ uncaught = "none"
  /\ ~isRunning(watcher)
  /\ watcher' = "chokidar"
  /\ UNCHANGED <<cacheVars, call, returnedMax, now, disk, dver, docCache, factCache, suggestion, pcApply, wr, applyLoc,
                 events, result, successVer, observed, fsPending, timers, awaiting,
                 wLast, onReindex, invd, watcherAux>>

\* ---- the fact functions applied to bounded inputs ----

\* The sequences of at most n elements of S.
SeqsUpTo(S, n) == UNION {[1..k -> S] : k \in 0..n}

\* Facts as extractFactsFromMarkdown makes them of the lines of a file.
FactUniverse ==
  {createFact(su, ob, "R1-CONFIGURATION.md") :
     su \in {"Database", "Cache"}, ob \in {"PostgreSQL", "postgresql", "MySQL"}}

\* The lines of a diff: a fact line added, kept as context, removed or without
\* prefix, and a heading.
DiffLines ==
  {[FLine("Database", "PostgreSQL") EXCEPT !.p = pre] : pre \in {"+", " ", "-", ""}}
    \cup {HLine("Config")}

\* The inputs of the fact functions.
FactInputs ==
  {[fn |-> "facts", existing |-> ex, input |-> inp] :
     ex \in SeqsUpTo(FactUniverse, MaxFacts), inp \in SeqsUpTo(FactUniverse, MaxFacts)}
    \cup {[fn |-> "diff", diff |-> d] : d \in SeqsUpTo(DiffLines, MaxFacts)}

\* findDuplicates and findConflicts on the index made of the existing facts.
FindDuplicatesAndConflicts ==
  /\ call.fn = "facts"
  /\ LET index == InsertAll(<<>>, call.existing)
     IN call' = [fn |-> "find",
                 duplicates |-> findDuplicates(index, call.input),
                 conflicts |-> findConflicts(index, call.input)]
  /\ UNCHANGED <<cacheVars, docsVars>>

\* extractFactsFromDiff on a diff.
ExtractFactsFromDiff ==
  /\ call.fn = "diff"
  /\ call' = [fn |-> "extractFactsFromDiff", diff |-> call.diff,
              facts |-> extractFactsFromDiff(call.diff, "R1-CONFIGURATION.md")]
  /\ UNCHANGED <<cacheVars, docsVars>>

\* ---- RAGPipeline.query, one step for each call it awaits ----

\* The queries a caller passes.
RAGQueries == {"", "  ", "auth", " auth "}

\* String.prototype.trim on the queries.
Trim(query) ==
  CASE query = "  " -> ""
    [] query = " auth " -> "auth"
    [] OTHER -> query

\* normalizeQuery
normalizeQuery(query) == Trim(query)

\* The start of query: topK is chosen and the query is normalized.
QueryStart(c) == [c EXCEPT !.pc = "embed", !.normalized = normalizeQuery(c.query)]

\* The results of the vector store: the heading of the chunk and whether its
\* content includes the query phrase.
SearchResults ==
  {[heading |-> "Test", relevant |-> FALSE], [heading |-> "Test", relevant |-> TRUE],
   [heading |-> "Auth", relevant |-> TRUE]}

\* String.prototype.toLowerCase on the headings.
toLowerCase(heading) ==
  CASE heading = "Test" -> "test"
    [] heading = "Auth" -> "auth"
    [] OTHER -> heading

\* An answer, by what assessGrounding reads of it: whether it contains "[" or
\* "lines", and the lower-case headings that occur in its lower-case text.
Answers == [marker : BOOLEAN, headings : SUBSET {"test", "auth"}]

\* The headings of the first n citations, in lower case.
HeadingsOf(citations, n) ==
  {toLowerCase(citations[i].heading) : i \in {j \in 1..Len(citations) : j <= n}}

\* fallbackAnswer: a title, and for each of the first three citations its
\* heading, its file with "(lines a-b)" and its snippet.
fallbackAnswer(citations) ==
  [marker |-> citations # <<>>, headings |-> HeadingsOf(citations, 3)]

\* The score of assessGrounding before the cap, in tenths: 3 for the marker
\* and 2 for every citation whose heading occurs in the answer.
RECURSIVE GroundingSum(_, _)
GroundingSum(answer, citations) ==
  IF citations = <<>> THEN (IF answer.marker THEN 3 ELSE 0)
  ELSE GroundingSum(answer, Tail(citations))
         + (IF toLowerCase(Head(citations).heading) \in answer.headings THEN 2 ELSE 0)

\* A threshold that also takes a score of 0.3 as insufficient.
InsufficientAtThreshold(score) == score <= 3

\* score < 0.3
Insufficient(score) == score < 3

\* assessGrounding; groundingScore is in tenths.
assessGrounding(answer, citations) ==
  LET sum == GroundingSum(answer, citations)
      score == IF sum < 10 THEN sum ELSE 10
  IN [groundingScore |-> score,
      insufficientEvidence |-> Insufficient(score),
      missingTopics |-> IF Insufficient(score) THEN <<"Additional context needed">> ELSE <<>>]

\* No response has been returned.
NoResponse == [answer |-> "none"]

\* The response of query when the search finds nothing.
EmptyResponse(query) ==
  [answer |-> "No relevant documentation found for this query.", citations |-> <<>>,
   groundingScore |-> 0, insufficientEvidence |-> TRUE, missingTopics |-> <<query>>]

\* The response of query for an answer and its citations.
Response(answer, citations) ==
  LET g == assessGrounding(answer, citations)
  IN [answer |-> answer, citations |-> citations, groundingScore |-> g.groundingScore,
      insufficientEvidence |-> g.insufficientEvidence, missingTopics |-> g.missingTopics]

\* The pipelines and the calls of query: the embedder's provider, API key and
\* cache, the store's connection, the reranker and the generator.
Pipelines ==
  {[fn |-> "query", query |-> q, pc |-> "start", normalized |-> "",
    provider |-> pr, apiKey |-> key, cache |-> ca, isConnected |-> co,
    rerank |-> re, groq |-> gr, calls |-> <<>>, hits |-> <<>>, result |-> "none", response |-> NoResponse] :
     q \in RAGQueries, pr \in {"voyage", "local"}, key \in BOOLEAN,
     ca \in SUBSET {"", "auth"}, co \in BOOLEAN, re \in BOOLEAN, gr \in BOOLEAN}

QueryNormalize ==
  /\ call.fn = "query"
  /\ call.pc = "start"
  /\ call' = QueryStart(call)
  /\ UNCHANGED <<cacheVars, docsVars>>

\* await this.embedder.embed(normalizedQuery): a cache hit, the Voyage request
\* or the local embedding.
QueryEmbed(ok) ==
  /\ call.fn = "query"
  /\ call.pc = "embed"
  /\ LET c == [call EXCEPT !.calls = Append(@, "embedder.embed")]
     IN call' =
          IF call.normalized \in call.cache
          THEN [c EXCEPT !.pc = "search"]
          ELSE IF call.provider = "voyage"
          THEN (IF ~call.apiKey
                THEN [c EXCEPT !.pc = "done", !.result = "VOYAGE_API_KEY is not set"]
                ELSE IF ok
                THEN [c EXCEPT !.pc = "search", !.calls = Append(@, "fetch voyage"),
                               !.cache = @ \cup {call.normalized}]
                ELSE [c EXCEPT !.pc = "done", !.calls = Append(@, "fetch voyage"),
                               !.result = "Voyage embeddings error"])
          ELSE [c EXCEPT !.pc = "search", !.cache = @ \cup {call.normalized}]
  /\ UNCHANGED <<cacheVars, docsVars>>

\* await this.store.search(embedding, topK, filters), and the return of query
\* when nothing is found.
QuerySearch(results, ok) ==
  /\ call.fn = "query"
  /\ call.pc = "search"
  /\ LET c == [call EXCEPT !.calls = Append(@, "store.search")]
     IN call' =
          IF ~call.isConnected
          THEN [c EXCEPT !.pc = "done", !.result = "Not connected to Milvus"]
          ELSE IF ~ok
          THEN [c EXCEPT !.pc = "done", !.calls = Append(@, "milvus search"),
                         !.result = "search error"]
          ELSE IF Len(results) = 0
          THEN [c EXCEPT !.pc = "done", !.calls = Append(@, "milvus search"),
                         !.result = "response",
                         !.response = EmptyResponse(call.query)]
          ELSE [c EXCEPT !.pc = "rerank", !.calls = Append(@, "milvus search"),
                         !.hits = results]
  /\ UNCHANGED <<cacheVars, docsVars>>

\* await this.reranker.rerank(normalizedQuery, searchResults)
QueryRerank ==
  /\ call.fn = "query"
  /\ call.pc = "rerank"
  /\ call' = [call EXCEPT !.pc = "generate",
                          !.calls = IF call.rerank THEN Append(@, "reranker.rerank") ELSE @]
  /\ UNCHANGED <<cacheVars, docsVars>>

\* await this.generateAnswer(...), the grounding assessment and the return:
\* the text that Groq generates, or the fallback answer when there is no Groq
\* client or the generation fails. The reranker returns the hits it was given
\* (at most topK = 6 of them), one citation for each.
QueryGenerate(ok, text) ==
  /\ call.fn = "query"
  /\ call.pc = "generate"
  /\ LET answer == IF call.groq /\ ok THEN text ELSE fallbackAnswer(call.hits)
     IN call' = [call EXCEPT !.pc = "done", !.result = "response",
                             !.response = Response(answer, call.hits),
                             !.calls = IF call.groq THEN Append(@, "generateText") ELSE @]
  /\ UNCHANGED <<cacheVars, docsVars>>

\* ---- the search_docs tool: searchDocs and the handler of the transport ----

\* Sections of the doc index: the words of the heading and of the content in
\* lower case, and the release.
DocSections ==
  {[heading |-> {"database", "layer"}, content |-> {"postgresql", "persistence"},
    release |-> "R1"],
   [heading |-> {"notes"}, content |-> {"unrelated", "content"}, release |-> "R1"],
   [heading |-> {"architecture"}, content |-> {"database", "diagram"}, release |-> "R2"],
   [heading |-> {"database", "schema"}, content |-> {"tables"}, release |-> "R2"]}

\* The queries of search_docs, one word each, in lower case, and the release
\* filters ("" when there is none).
SearchQueries == {"database", "anything", "architecture"}
ReleaseFilters == {"", "R1", "R2"}

\* The keywords of scoreSection that occur in the queries.
Keywords == {"architecture"}

\* scoreSection for a query of one term longer than two characters.
scoreSection(section, query) ==
  (IF query \in section.heading THEN 100 ELSE 0)
    + (IF query \in section.content THEN 50 ELSE 0)
    + (IF query \in section.heading THEN 10 ELSE 0)
    + (IF query \in section.content THEN 5 ELSE 0)
    + (IF query \in Keywords /\ query \in section.heading \cup section.content
       THEN 15 ELSE 0)

\* Array.prototype.filter
FilterSeq(seq, keep(_)) == SelectSeq(seq, keep)

\* An insertion that puts a result before the results of equal score.
RECURSIVE InsertBeforeEqual(_, _)
InsertBeforeEqual(sorted, r) ==
  IF sorted = <<>> THEN <<r>>
  ELSE IF Head(sorted).score > r.score
       THEN <<Head(sorted)>> \o InsertBeforeEqual(Tail(sorted), r)
       ELSE <<r>> \o sorted

\* Insertion of a result into results sorted by falling score, after the
\* results of equal score (Array.prototype.sort is stable).
RECURSIVE InsertByScore(_, _)
InsertByScore(sorted, r) ==
  IF sorted = <<>> THEN <<r>>
  ELSE IF Head(sorted).score >= r.score
       THEN <<Head(sorted)>> \o InsertByScore(Tail(sorted), r)
       ELSE <<r>> \o sorted

RECURSIVE SortByScore(_)
SortByScore(results) ==
  IF results = <<>> THEN <<>>
  ELSE InsertByScore(SortByScore(SubSeq(results, 1, Len(results) - 1)),
                     results[Len(results)])

\* options?.maxResults || 5 (0 stands for an absent option as well)
MaxResultsOr5(maxResults) == IF maxResults = 0 THEN 5 ELSE maxResults

\* semanticSearch: filter by release, score, sort, keep the first maxResults
\* and of these the ones with a positive score.
semanticSearch(sections, query, release, maxResults) ==
  LET filtered == IF release # "" THEN FilterSeq(sections, LAMBDA x : x.release = release)
                  ELSE sections
      results == [i \in 1..Len(filtered) |->
                    [section |-> filtered[i], score |-> scoreSection(filtered[i], query)]]
      sorted == SortByScore(results)
      limit == MaxResultsOr5(maxResults)
      top == SubSeq(sorted, 1, IF Len(sorted) < limit THEN Len(sorted) ELSE limit)
  IN FilterSeq(top, LAMBDA r : r.score > 0)

\* The sentinel of utils/not-found.
DOCS_NOT_FOUND == [text |-> "DOCS_NOT_FOUND", results |-> <<>>]

\* searchDocs
searchDocs(sections, query, release) ==
  LET results == semanticSearch(sections, query, release, 10)
  IN IF Len(sections) = 0
     THEN [text |-> "No documentation found. Ensure PROJECT_ROOT points to your documentation directory.",
           results |-> <<>>]
     ELSE IF Len(results) = 0
     THEN [text |-> "No relevant documentation found for query", results |-> <<>>]
     ELSE [text |-> "Search Results", results |-> results]

\* The text that the search_docs handler returns for a result of searchDocs.
ToolContent(res) ==
  IF res = DOCS_NOT_FOUND
  THEN [text |-> "No documentation found for this query. Try broadening your terms or removing filters.",
        results |-> <<>>]
  ELSE res

\* Nothing has been returned yet.
NoContent == [text |-> "", results |-> <<>>]

\* The calls of the search_docs tool.
SearchCalls ==
  {[fn |-> "search_docs", pc |-> "searchDocs", sections |-> ss, query |-> q,
    release |-> rel, result |-> NoContent, content |-> NoContent] :
     ss \in SeqsUpTo(DocSections, MaxSections), q \in SearchQueries, rel \in ReleaseFilters}

\* The sequences of at most n distinct elements of S.
DistinctSeqsUpTo(S, n) ==
  {q \in SeqsUpTo(S, n) : \A i, j \in 1..Len(q) : q[i] = q[j] => i = j}

\* The calls of semanticSearch: the sections of a doc index (each section
\* occurs once), a query, a release filter and maxResults (0: not given).
SemanticCalls ==
  {[fn |-> "semanticSearch", pc |-> "call", sections |-> ss, query |-> q,
    release |-> rel, maxResults |-> m, results |-> <<>>] :
     ss \in DistinctSeqsUpTo(DocSections, MaxSections), q \in SearchQueries,
     rel \in ReleaseFilters, m \in 0..MaxSections}

\* semanticSearch(sections, query, {release, maxResults})
SemanticSearch ==
  /\ call.fn = "semanticSearch"
  /\ call.pc = "call"
  /\ call' = [call EXCEPT !.pc = "done",
                          !.results = semanticSearch(call.sections, call.query,
                                                     call.release, call.maxResults)]
  /\ UNCHANGED <<cacheVars, docsVars>>

\* await searchDocs(config.docsPath, args)
SearchDocs ==
  /\ call.fn = "search_docs"
  /\ call.pc = "searchDocs"
  /\ call' = [call EXCEPT !.pc = "handler",
                          !.result = searchDocs(call.sections, call.query, call.release)]
  /\ UNCHANGED <<cacheVars, docsVars>>

\* The handler replaces the sentinel and returns the content.
SearchHandler ==
  /\ call.fn = "search_docs"
  /\ call.pc = "handler"
  /\ call' = [call EXCEPT !.pc = "done", !.content = ToolContent(call.result)]
  /\ UNCHANGED <<cacheVars, docsVars>>

\* ---- HTTPBridge: a tool call over HTTP or over the WebSocket ----

\* The body size limit, in units of 512 KiB.
MAX_BODY_SIZE_BYTES == 2

\* The sizes of the chunks of a body, in the same units.
ChunkSizes == 1..2

RECURSIVE SumSeq(_)
SumSeq(seq) == IF seq = <<>> THEN 0 ELSE Head(seq) + SumSeq(Tail(seq))

\* The requests: the entry point, the chunks of the body (for the WebSocket,
\* of the message), whether a Content-Length header is sent, whether the body
\* is JSON and whether it names a registered tool.
BridgeRequests ==
  {[fn |-> "bridge", entry |-> en, pc |-> "request", chunks |-> ch, size |-> SumSeq(ch),
    declared |-> de, json |-> js, tool |-> tl, totalBytes |-> 0, invoked |-> FALSE,
    reply |-> "none"] :
     en \in {"http", "ws"}, ch \in SeqsUpTo(ChunkSizes, MaxChunks), de \in BOOLEAN,
     js \in BOOLEAN, tl \in BOOLEAN}

\* bytes > MAX_BODY_SIZE_BYTES
TooLarge(bytes) == bytes > MAX_BODY_SIZE_BYTES

\* JSON.parse of the body and the lookup of the tool; the tool's handler is
\* invoked when both succeed.
Dispatch(c, parseError, notFound) ==
  IF ~c.json THEN [c EXCEPT !.pc = "done", !.reply = parseError]
  ELSE IF ~c.tool THEN [c EXCEPT !.pc = "done", !.reply = notFound]
  ELSE [c EXCEPT !.pc = "handler", !.invoked = TRUE]

\* handleRequest for POST /tools/call up to the first await of handleCallTool:
\* the test of the Content-Length header.
HandleCallTool ==
  /\ call.fn = "bridge" /\ call.entry = "http"
  /\ call.pc = "request"
  /\ call' = IF call.declared /\ TooLarge(call.size)
             THEN [call EXCEPT !.pc = "done", !.reply = "413"]
             ELSE [call EXCEPT !.pc = "readBody"]
  /\ UNCHANGED <<cacheVars, docsVars>>

\* readBody, a data event: the chunk is counted; over the limit the request is
\* destroyed and PayloadTooLargeError reaches the catch of handleRequest.
ReadBodyData ==
  /\ call.fn = "bridge" /\ call.entry = "http"
  /\ call.pc = "readBody"
  /\ call.chunks # <<>>
  /\ LET total == call.totalBytes + Head(call.chunks)
     IN call' = IF TooLarge(total)
                THEN [call EXCEPT !.pc = "done", !.reply = "413", !.totalBytes = total,
                                  !.chunks = <<>>]
                ELSE [call EXCEPT !.totalBytes = total, !.chunks = Tail(@)]
  /\ UNCHANGED <<cacheVars, docsVars>>

\* readBody, the end event, and handleCallTool up to the call of the handler.
ReadBodyEnd ==
  /\ call.fn = "bridge" /\ call.entry = "http"
  /\ call.pc = "readBody"
  /\ call.chunks = <<>>
  /\ call' = Dispatch(call, "500", "404")
  /\ UNCHANGED <<cacheVars, docsVars>>

\* handleWebSocket, a message event up to the call of the handler.
WebSocketMessage ==
  /\ call.fn = "bridge" /\ call.entry = "ws"
  /\ call.pc = "request"
  /\ call' = Dispatch([call EXCEPT !.totalBytes = call.size, !.chunks = <<>>],
                      "ws error", "ws error: Tool not found")
  /\ UNCHANGED <<cacheVars, docsVars>>

\* The handler of the tool settles and the bridge answers.
ToolHandlerDone(ok) ==
  /\ call.fn = "bridge"
  /\ call.pc = "handler"
  /\ call' = [call EXCEPT !.pc = "done",
                          !.reply = IF call.entry = "http"
                                    THEN (IF ok THEN "200" ELSE "500")
                                    ELSE (IF ok THEN "ws content" ELSE "ws error")]
  /\ UNCHANGED <<cacheVars, docsVars>>

\* ---- the fingerprint of a corpus before and after one change of a file ----

\* The corpora of the model: every file absent, or present with an mtime.
Trees == [TreePaths -> {NoFile} \cup {File(<<>>, t) : t \in 0..MaxMtime}]

\* Two index builds, one before and one after a change of the corpus that
\* concerns the files path and to: the fingerprints, and whether one of the
\* files is a file of the fingerprint before or after the change.
FingerprintCall(op, before, after, path, to) ==
  [fn |-> "calculateFingerprint", op |-> op,
   selected |-> \/ path \in FingerprintFiles(before)
                \/ to \in FingerprintFiles(after),
   before |-> calculateFingerprint(before),
   after |-> calculateFingerprint(after)]

\* The corpus that has been drawn (none once the builds have been made).
CorpusOf(c) == IF c.fn = "corpus" THEN c.tree ELSE [f \in TreePaths |-> NoFile]

\* A file is added between two index builds.
FingerprintAdd(path, t) ==
  LET tree == CorpusOf(call) IN
  /\ call.fn = "corpus"
  /\ ~tree[path].exists
  /\ call' = FingerprintCall("add", tree, [tree EXCEPT ![path] = File(<<>>, t)],
                             path, path)
  /\ UNCHANGED <<cacheVars, docsVars>>

\* A file is removed.
FingerprintRemove(path) ==
  LET tree == CorpusOf(call) IN
  /\ call.fn = "corpus"
  /\ tree[path].exists
  /\ call' = FingerprintCall("remove", tree, [tree EXCEPT ![path] = NoFile], path, path)
  /\ UNCHANGED <<cacheVars, docsVars>>

\* A file is renamed; it keeps its mtime.
FingerprintRename(path, to) ==
  LET tree == CorpusOf(call) IN
  /\ call.fn = "corpus"
  /\ tree[path].exists
  /\ to # path
  /\ ~tree[to].exists
  /\ call' = FingerprintCall("rename", tree,
                             [tree EXCEPT ![path] = NoFile, ![to] = tree[path]],
                             path, to)
  /\ UNCHANGED <<cacheVars, docsVars>>

\* The mtime of a file changes.
FingerprintTouch(path, t) ==
  LET tree == CorpusOf(call) IN
  /\ call.fn = "corpus"
  /\ tree[path].exists
  /\ t # tree[path].mtime
  /\ call' = FingerprintCall("touch", tree, [tree EXCEPT ![path] = File(<<>>, t)],
                             path, path)
  /\ UNCHANGED <<cacheVars, docsVars>>

(***************************************************************************)
(* Properties of Part II                                                   *)
(***************************************************************************)

\* C2: every applyUpdate call ends in exactly one of two states: the target
\* holds the complete new content and the doc-index and fact-index caches of
\* the root have been invalidated by the call, or the target is as before the
\* call and the call has invalidated neither cache.
C2_ApplyAtomic ==
  (pcApply = "idle" /\ result.status # "none") =>
     \/ (applyLoc.fileNew /\ applyLoc.invDoc /\ applyLoc.invFact)
     \/ (applyLoc.fileSame /\ ~applyLoc.invDoc /\ ~applyLoc.invFact)

\* C3: once an applyUpdate call has returned status=success, whatever a
\* getDocIndex call (cached or not) or a getFactIndex call for the root
\* returns was built from the files as they are after that write or later,
\* never from the files as they were before it.
C3_NoStaleReadAfterSuccess ==
  (pcApply = "idle" /\ successVer > 0) =>
     /\ \A en \in BOOLEAN :
          getIndex(docCache, DocsRoot, disk, now, dver, en).e.ver >= successVer
     /\ getFactIndex(factCache, docCache, DocsRoot, disk, now, dver).f.ver >= successVer

\* C3 witness: after a successful applyUpdate, lookups have filled both caches
\* again (the call itself leaves the fact cache empty).
C3_Witness ==
  /\ pcApply = "idle" /\ result.status = "success"
  /\ docCache[DocsRoot].present /\ docCache[DocsRoot].ver >= successVer
  /\ factCache[DocsRoot].present /\ factCache[DocsRoot].ver >= successVer

\* C4: a getDocIndex(root) call that begins after invalidateDocIndex(root) has
\* returned never returns the entry that was cached when invalidate was
\* called; it returns an index built from the files on disk.
C4_RebuildAfterInvalidate ==
  \A r \in Roots, en \in BOOLEAN :
     LET e == getIndex(docCache, r, disk, now, dver, en).e
     IN /\ ~e.old
        /\ (~docCache[r].present => (e.sections = parseDocumentation(DirOf(r, disk))
                                     /\ e.timestamp = now))

\* C4 witness: invalidate has been called on a cached entry of the root and a
\* later lookup has built and cached a new entry.
C4_Witness ==
  /\ invd[DocsRoot]
  /\ docCache[DocsRoot].present
  /\ ~docCache[DocsRoot].old

\* C5: an applyUpdate call whose preflight finds N >= 1 conflicts between the
\* facts of the diff and the fact index of the root, made without force,
\* returns status=error with reindexed=false and the conflict message that
\* carries N, leaves the files as they are, invalidates no cache and emits no
\* event.
C5_BlockedStep ==
  (/\ pcApply = "idle"
   /\ <<applyLoc, result, events>>' # <<applyLoc, result, events>>
   /\ applyLoc'.n >= 1
   /\ ~applyLoc'.force) =>
     /\ result' = [status |-> "error", reindexed |-> FALSE, err |-> "conflict",
                   n |-> applyLoc'.n]
     /\ pcApply' = "idle"
     /\ disk' = disk /\ dver' = dver
     /\ events' = <<>>
     /\ invd' = invd
     /\ \A r \in Roots : /\ docCache[r].present => docCache'[r].present
                         /\ factCache[r].present => factCache'[r] = factCache[r]

C5_ConflictBlocksApply == [][C5_BlockedStep]_vars

\* C5 witness: an applyUpdate call has been refused for conflicts.
C5_Witness ==
  /\ result.status = "error" /\ result.err = "conflict" /\ result.n >= 1
  /\ applyLoc.n = result.n /\ ~applyLoc.force
  /\ events = <<>>

\* C6: the suggestion returned by suggestUpdate has blocked = true if and only
\* if its conflicts list is non-empty.
C6_BlockedIffConflicts ==
  suggestion.blocked <=> (Len(suggestion.conflicts) > 0)

\* C6 witness: a blocked suggestion, with conflicts and no duplicates.
C6_Witness ==
  /\ suggestion.blocked
  /\ Len(suggestion.conflicts) > 0
  /\ Len(suggestion.duplicates) = 0

\* C7: a reader of the target path concurrent with the write of applyUpdate
\* sees the complete previous content or the complete new content, never a
\* truncated or partly written file.
C7_ReaderSeesWholeFile ==
  observed.inWrite => observed.whole

\* C9: a successful applyUpdate emits exactly one doc_created or doc_updated
\* event and then reindex_triggered; reindex_triggered is never emitted
\* without a doc_created or doc_updated event of the same call before it.
C9_EventOrder ==
  /\ result.status = "success" =>
        events \in {<<"doc_created", "reindex_triggered">>,
                    <<"doc_updated", "reindex_triggered">>}
  /\ \A i \in 1..Len(events) :
        events[i] = "reindex_triggered" =>
           \E j \in 1..(i - 1) : events[j] \in {"doc_created", "doc_updated"}

\* C9 witness: a successful create and its two events.
C9_Witness ==
  /\ result.status = "success"
  /\ events = <<"doc_created", "reindex_triggered">>

\* C10: when a debounce timer of the watcher fires for a changed file, both
\* the doc index and the fact index of the root are invalidated, so that the
\* next fact-index lookup is built from the changed files.
C10_TimerStep ==
  (\E f \in Paths : timers[f] # NoTimer /\ timers'[f] = NoTimer) =>
     /\ ~docCache'[DocsRoot].present
     /\ ~factCache'[DocsRoot].present

C10_WatcherCascade == [][C10_TimerStep]_vars

\* The timers that are scheduled for a file.
TimersOf(sched, f) == {tm \in sched : tm.file = f}

\* A step in which handleChange runs for f.
C11_NotifyStep(f) ==
  fsPending[f] # NoChange /\ fsPending'[f] = NoChange /\ watcher' = "chokidar"

\* A step in which a timer fires.
C11_FireStep ==
  scheduled' # scheduled /\ fsPending' = fsPending /\ watcher' = watcher

\* C11: every change notification of a path starts or resets the debounce
\* timer of that path, so that a burst of notifications of one path, each
\* arriving while the timer of the one before is pending, gives one timer
\* firing, debounceMs or more after the last notification of the burst, which
\* invalidates the doc index once and emits (at once, or when onReindex has
\* resolved) one event; the timers of the other paths are not touched.
C11_Debounce ==
  /\ [](\A f \in Paths :
          /\ Cardinality(TimersOf(scheduled, f)) <= 1
          /\ burst[f].fired <= 1
          /\ timers[f] # NoTimer =>
               /\ TimersOf(scheduled, f) = {[file |-> f, type |-> timers[f].type,
                                             due |-> timers[f].due]}
               /\ burst[f].fired = 0)
  /\ [][/\ \A f \in Paths : C11_NotifyStep(f) =>
            /\ timers'[f] = [type |-> fsPending[f], due |-> now + debounceMs]
            /\ TimersOf(scheduled', f) = {setTimeout(f, fsPending[f], now)}
            /\ \A g \in Paths \ {f} :
                 /\ timers'[g] = timers[g]
                 /\ TimersOf(scheduled', g) = TimersOf(scheduled, g)
        /\ C11_FireStep =>
            \E tm \in scheduled :
              /\ scheduled' = scheduled \ {tm}
              /\ tm.due = lastNotified[tm.file] + debounceMs
              /\ now >= tm.due
              /\ timers'[tm.file] = NoTimer
              /\ \A g \in Paths \ {tm.file} : timers'[g] = timers[g]
              /\ ~docCache'[DocsRoot].present
              /\ IF onReindex = "none"
                 THEN wLast' = [kind |-> WatcherEvent(tm.type), file |-> tm.file]
                 ELSE tm \notin awaiting /\ awaiting' = awaiting \cup {tm}
        /\ \A cb \in awaiting :
            (awaiting' = awaiting \ {cb} /\ uncaught' = "none" /\ wLast'.kind # "error") =>
              wLast' = [kind |-> WatcherEvent(cb.type), file |-> cb.file]
       ]_vars

\* A burst of two notifications of one path has ended with one firing, which
\* has emitted its event.
C11_Witness ==
  \E f \in Paths :
    /\ burst[f].n >= 2
    /\ burst[f].fired = 1
    /\ timers[f] = NoTimer
    /\ awaiting = {}
    /\ wLast.file = f

\* C12: when stop() resolves, debounceTimers is empty, no debounce timer is
\* scheduled any more, the FSWatcher has been released and isRunning() is
\* false; the same holds whenever the watcher is not running.
C12_StopReleases ==
  /\ [](~isRunning(watcher) =>
          /\ \A f \in Paths : timers[f] = NoTimer
          /\ scheduled = {})
  /\ [][(watcher = "closed" /\ watcher' = "undefined") =>
          /\ \A f \in Paths : timers'[f] = NoTimer
          /\ scheduled' = {}
          /\ ~isRunning(watcher')]_vars

\* stop() has resolved after cancelling the timer of a burst that had not
\* fired.
C12_Witness ==
  /\ ~isRunning(watcher)
  /\ \E f \in Paths :
       burst[f].n >= 1 /\ burst[f].fired = 0 /\ timers[f] = NoTimer

\* C13: an error raised by the FSWatcher or thrown while a debounced change
\* is processed (a rejecting onReindex included) never leaves the watcher as
\* an uncaught exception or an unhandled rejection, whatever listeners are
\* registered.
C13_NoErrorEscapes == uncaught = "none"

\* C14 as stated: any add, remove, rename or mtime change of a Markdown file
\* under the root changes the fingerprint of the next index build.
C14_AnyChange ==
  call.fn = "calculateFingerprint" => call.before # call.after

\* C14 amended: any add, remove, rename or mtime change of a Markdown file
\* that is a file of the fingerprint before or after the change (one that the
\* walk of the corpus selects) changes the fingerprint of the next index build.
C14_SelectedChange ==
  (call.fn = "calculateFingerprint" /\ call.selected) => call.before # call.after

\* The mtime of a selected file has changed while another file is selected
\* too, and the fingerprints differ.
C14_Witness ==
  /\ call.fn = "calculateFingerprint"
  /\ call.op = "touch"
  /\ call.selected
  /\ Len(call.before) = 2
  /\ call.before # call.after

\* C15: a get(root) that follows invalidate(root), and so builds the index,
\* returns an index whose timestamp is strictly greater than the timestamp of
\* every index returned for the root before.
C15_StrictlyNewer ==
  [][\A r \in Roots :
       (invd[r] /\ ~docCache[r].present /\ docCache'[r].present) =>
         docCache'[r].timestamp > returnedMax[r]]_vars

\* C16: in every state, getDocIndex(root) with caching enabled returns the
\* cached index as it is, without parsing, exactly when the cache holds an
\* entry of the root and the time is before its expiresAt; in every other
\* case the index returned is parsed from the files at that time, and with
\* caching enabled it is stored with expiresAt = now + ttlMs.
C16_CachedIffFresh ==
  \A r \in Roots, en \in BOOLEAN :
    LET g == getIndex(docCache, r, disk, now, dver, en)
    IN IF en /\ docCache[r].present /\ now < docCache[r].expiresAt
       THEN g.e = docCache[r] /\ g.dc = docCache
       ELSE /\ g.e.sections = parseDocumentation(DirOf(r, disk))
            /\ g.e.fingerprint = calculateFingerprint(DirOf(r, disk))
            /\ g.e.timestamp = now
            /\ g.e.ver = dver
            /\ IF en
               THEN g.dc = [docCache EXCEPT ![r] = g.e]
                    /\ g.dc[r].expiresAt = now + DEFAULT_TTL_MS
               ELSE g.dc = docCache

\* An index has been returned and is cached and not expired, while a file of
\* the root has been written since it was built.
C16_Witness ==
  \E r \in Roots :
    /\ returnedMax[r] >= 0
    /\ docCache[r].present
    /\ now < docCache[r].expiresAt
    /\ docCache[r].ver # dver

\* The number of places of lines at which diff occurs.
Occurrences(lines, diff) ==
  Cardinality({i \in 1..(Len(lines) - Len(diff) + 1) :
                 SubSeq(lines, i, i + Len(diff) - 1) = diff})

\* C17: an application with force=true of the suggestion last made returns
\* status=success unless the file system or a listener fails it, and after
\* two such applications in a row, both returned with status=success and with
\* nothing else applied since the suggestion was made, the target holds the
\* diff of the suggestion twice.
C17_ForcedTwiceAppends ==
  /\ (pcApply = "idle" /\ applyLoc.force /\ result.status = "error") =>
       result.err \in {"io", "listener"}
  /\ (pcApply = "idle" /\ applyLoc.forced = 2) =>
       /\ result.status = "success"
       /\ Occurrences(disk[suggestion.targetPath].lines, suggestion.diff) >= 2

\* C18: findDuplicates and findConflicts are disjoint: no pair of an input
\* fact and an existing fact is reported both as a duplicate and as a
\* conflict.
C18_Disjoint ==
  call.fn = "find" =>
    \A i \in 1..Len(call.duplicates), j \in 1..Len(call.conflicts) :
      ~(/\ call.duplicates[i].existing = call.conflicts[j].existing
        /\ call.duplicates[i].duplicate = call.conflicts[j].conflicting)

\* An input fact has been reported as a duplicate of one existing fact and in
\* conflict with another.
C18_Witness ==
  /\ call.fn = "find"
  /\ \E i \in 1..Len(call.duplicates), j \in 1..Len(call.conflicts) :
       call.duplicates[i].duplicate = call.conflicts[j].conflicting

\* A diff of one added line and one context line that hold the same fact.
C19_AddedAndContext(d) ==
  /\ Len(d) = 2
  /\ {d[1].p, d[2].p} = {"+", " "}
  /\ d[1].t = "f" /\ d[2].t = "f"
  /\ d[1].s = d[2].s /\ d[1].o = d[2].o

\* C19 as stated: extractFactsFromDiff on a diff of one added line `+A: B`
\* and one context line ` A: B` yields exactly one Fact.
C19_OneFact ==
  (call.fn = "extractFactsFromDiff" /\ C19_AddedAndContext(call.diff)) =>
    Len(call.facts) = 1

\* C19 amended: extractFactsFromDiff on such a diff yields exactly two Facts,
\* one for each of the two lines, both with subject A and object B.
C19_TwoFacts ==
  (call.fn = "extractFactsFromDiff" /\ C19_AddedAndContext(call.diff)) =>
    /\ Len(call.facts) = 2
    /\ \A i \in 1..2 : /\ call.facts[i].subject = call.diff[i].s
                        /\ call.facts[i].object = call.diff[i].o

\* extractFactsFromDiff has been applied to such a diff.
C19_Witness ==
  /\ call.fn = "extractFactsFromDiff"
  /\ C19_AddedAndContext(call.diff)
  /\ Len(call.facts) = 2

\* C20: RAGPipeline.query with a query whose trimmed form is empty fails with
\* a validation error before any embedding call, vector search or other I/O:
\* it makes no call, and when it ends it has failed with a validation error.
C20_FailFast ==
  (call.fn = "query" /\ Trim(call.query) = "") =>
    /\ call.calls = <<>>
    /\ call.pc = "done" => call.result = "validation error"

\* C24: searchDocs returns exactly the DOCS_NOT_FOUND sentinel when the corpus
\* has no sections and when the query yields no hit, and the handler of the
\* transport then answers with its user-friendly message.
C24_NotFoundSentinel ==
  (/\ call.fn = "search_docs"
   /\ call.pc # "searchDocs"
   /\ \/ call.sections = <<>>
      \/ semanticSearch(call.sections, call.query, call.release, 10) = <<>>) =>
    /\ call.result = DOCS_NOT_FOUND
    /\ call.pc = "done" => call.content = ToolContent(DOCS_NOT_FOUND)

\* C25: the transport never invokes a tool handler for a request whose body
\* exceeds 1 MiB, on any entry point of the bridge, and answers an over-size
\* HTTP tool call with status 413.
C25_BodyCap ==
  (call.fn = "bridge" /\ call.size > MAX_BODY_SIZE_BYTES) =>
    /\ ~call.invoked
    /\ (call.entry = "http" /\ call.pc = "done") => call.reply = "413"

\* The query has returned a response.
Responded == call.fn = "query" /\ call.pc = "done" /\ call.result = "response"

\* C21: when the vector store returns exactly one hit whose content does not
\* include the query phrase, the response has insufficientEvidence = true,
\* groundingScore < 0.3 and a non-empty list of citations.
C21_IrrelevantHitInsufficient ==
  (Responded /\ Len(call.hits) = 1 /\ ~call.hits[1].relevant) =>
    /\ call.response.insufficientEvidence
    /\ call.response.groundingScore < 3
    /\ call.response.citations # <<>>

\* C22: every response, the one for no hits included, has
\* 0 <= groundingScore <= 1 and insufficientEvidence = (groundingScore < 0.3);
\* a search without results yields groundingScore = 0 and
\* insufficientEvidence = true.
C22_ScoreAndEvidence ==
  Responded =>
    /\ call.response.groundingScore \in 0..10
    /\ call.response.insufficientEvidence = (call.response.groundingScore < 3)
    /\ call.hits = <<>> => /\ call.response.groundingScore = 0
                           /\ call.response.insufficientEvidence

\* A response whose score was cut to 1 has been returned.
C22_Witness ==
  /\ Responded
  /\ call.hits # <<>>
  /\ GroundingSum(call.response.answer, call.response.citations) > 10
  /\ call.response.groundingScore = 10
  /\ ~call.response.insufficientEvidence

\* The agent, the callers of the index caches and a reader of the target in
\* another process; the watcher is not started (--no-watch).
DocsNext ==
  \/ \E i \in Intents : SuggestUpdate(i)
  \/ \E force \in BOOLEAN : ApplyStart(force)
  \/ \E writeOk \in BOOLEAN, l1 \in ListenerKinds, l2 \in ListenerKinds :
        ApplyFinish(writeOk, l1, l2)
  \/ \E r \in Roots, en \in BOOLEAN : ReadDocIndex(r, en)
  \/ \E r \in Roots : ReadFactIndex(r)
  \/ CleanExpired
  \/ Tick
  \/ \E f \in Paths : ExternalRead(f)

\* The started watcher, the refresh tool, the callers of the index caches and
\* other processes changing the files.
WatchNext ==
  \/ \E r \in Roots, en \in BOOLEAN : ReadDocIndex(r, en)
  \/ \E r \in Roots : ReadFactIndex(r)
  \/ \E r \in Roots : InvalidateDocIndex(r)
  \/ CleanExpired
  \/ Tick
  \/ \E f \in Paths, c \in EditContents : ExternalWrite(f, c)
  \/ \E f \in Paths : ExternalDelete(f)
  \/ \E f \in Paths : HandleChange(f)
  \/ \E f \in Paths : TimerFire(f)
  \/ \E f \in Paths, t \in ChangeTypes, d \in Times :
       ReindexDone([file |-> f, type |-> t, due |-> d])

\* The DocsWatcher alone: the FSWatcher reports changes and errors, timers
\* fire, onReindex resolves or rejects, the owner stops and restarts it.
DebounceNext ==
  \/ \E f \in Paths, t \in ChangeTypes : ChokidarNotify(f, t)
  \/ \E f \in Paths : HandleChange(f)
  \/ Tick
  \/ \E f \in Paths : TimerFire(f)
  \/ \E f \in Paths, t \in ChangeTypes, d \in Times :
       ReindexDone([file |-> f, type |-> t, due |-> d])
  \/ \E f \in Paths, t \in ChangeTypes, d \in Times :
       ReindexReject([file |-> f, type |-> t, due |-> d])
  \/ WatcherError
  \/ StopStart
  \/ StopDone
  \/ Start
  \/ ReadDocIndex(DocsRoot, TRUE)

\* The inputs of the fact functions are drawn.
FactsInit ==
  /\ CacheInit
  /\ DocsInit
  /\ call \in FactInputs

FactsNext ==
  \/ FindDuplicatesAndConflicts
  \/ ExtractFactsFromDiff

\* A pipeline and a query are drawn.
QueryInit ==
  /\ CacheInit
  /\ DocsInit
  /\ call \in Pipelines

QueryNext ==
  \/ QueryNormalize
  \/ \E ok \in BOOLEAN : QueryEmbed(ok)
  \/ \E results \in SeqsUpTo(SearchResults, MaxHits), ok \in BOOLEAN : QuerySearch(results, ok)
  \/ QueryRerank
  \/ \E ok \in BOOLEAN, text \in Answers : QueryGenerate(ok, text)

\* A doc index and the arguments of search_docs are drawn.
SearchInit ==
  /\ CacheInit
  /\ DocsInit
  /\ call \in SearchCalls \cup SemanticCalls

SearchNext ==
  \/ SearchDocs
  \/ SearchHandler
  \/ SemanticSearch

\* A request to the bridge is drawn.
BridgeInit ==
  /\ CacheInit
  /\ DocsInit
  /\ call \in BridgeRequests

BridgeNext ==
  \/ HandleCallTool
  \/ ReadBodyData
  \/ ReadBodyEnd
  \/ WebSocketMessage
  \/ \E ok \in BOOLEAN : ToolHandlerDone(ok)

\* C30: when applyUpdate emits reindex_triggered, the doc-index cache and the
\* fact-index cache of the root have both been invalidated, and a listener
\* that reads either cache in its handler gets an index built from the files
\* as they are after the write.
C30_EmitStep ==
  \A lstDoc, lstRe \in ListenerKinds :
    (pcApply = "writing" /\ lstDoc # "throw" /\ ApplyFinish(TRUE, lstDoc, lstRe)) =>
      LET at == AtReindexTriggered(lstDoc)
          g == getIndex(at.dc, DocsRoot, at.disk, now, dver + 1, TRUE)
          h == getFactIndex(at.fc, g.dc, DocsRoot, at.disk, now, dver + 1)
      IN /\ ~at.dc[DocsRoot].present
         /\ ~at.fc[DocsRoot].present
         /\ g.e.ver = dver + 1
         /\ h.f.ver = dver + 1

C30_InvalidatedAtEmit == [][C30_EmitStep]_vars

\* The timers that fire in a step (a timer that is cleared does not count as
\* fired in burst).
FiredTimers ==
  {tm \in scheduled \ scheduled' : burst'[tm.file].fired = burst[tm.file].fired + 1}

\* The event of a change type, as the claims name it.
EventOfChange(file, type) ==
  [kind |-> CASE type = "add" -> "doc_indexed"
              [] type = "change" -> "doc_updated"
              [] type = "unlink" -> "doc_removed",
   file |-> file]

\* C31: when a debounce timer fires for a path, the doc index is invalidated
\* first, then onReindex (if given) is called and awaited to its completion,
\* then one event is emitted whose kind is that of the change: doc_indexed
\* for add, doc_updated for change, doc_removed for unlink.
C31_Step ==
  /\ \A tm \in FiredTimers :
        /\ ~docCache'[DocsRoot].present
        /\ IF onReindex = "none"
           THEN wLast' = EventOfChange(tm.file, tm.type) /\ awaiting' = awaiting
           ELSE tm \in awaiting' /\ wLast' = wLast
  /\ \A cb \in awaiting \ awaiting' :
        \/ wLast' = EventOfChange(cb.file, cb.type)
        \/ ReindexReject(cb)
  /\ (wLast' # wLast /\ wLast'.kind # "error") =>
        \/ \E tm \in FiredTimers :
             onReindex = "none" /\ wLast' = EventOfChange(tm.file, tm.type)
        \/ \E cb \in awaiting \ awaiting' : wLast' = EventOfChange(cb.file, cb.type)

C31_CallbackOrder == [][C31_Step]_vars

\* A callback has called onReindex after invalidating a cached index, and has
\* emitted doc_removed when onReindex had resolved.
C31_Witness ==
  /\ onReindex = "async"
  /\ invd[DocsRoot]
  /\ awaiting = {}
  /\ wLast.kind = "doc_removed"

\* C32: once stop() has resolved, the watcher invalidates no doc index, calls
\* onReindex no more and emits no doc_indexed, doc_updated or doc_removed
\* event, even if a callback was awaiting onReindex when stop() was called.
C32_Step ==
  (~isRunning(watcher) /\ ~isRunning(watcher')) =>
     /\ FiredTimers = {}
     /\ invd' = invd
     /\ awaiting' \subseteq awaiting
     /\ (wLast' # wLast => wLast'.kind = "error")

C32_QuietAfterStop == [][C32_Step]_vars

\* C33: a suggestion is blocked only because of the facts of the context of
\* its intent: when the context holds no fact line (the diff is the two
\* generated lines followed by the context), blocked is false and conflicts
\* is empty, whatever updates have been applied before.
C33_BlockedOnlyByContext ==
  (suggestion.action # "none"
     /\ \A i \in 3..Len(suggestion.diff) : suggestion.diff[i].t # "f") =>
    (~suggestion.blocked /\ suggestion.conflicts = <<>>)

\* The position of a section in the sections given to semanticSearch.
PosIn(sections, section) == CHOOSE i \in 1..Len(sections) : sections[i] = section

MaxDocLines == 4

\* A line of three backquotes, which opens or closes a code fence.
FenceLine == [p |-> "", t |-> "c", s |-> "fence", o |-> ""]

\* The lines of the files that are parsed and chunked. Each one is three
\* characters long ("# A", "abc", the fence); none is blank.
DocLines == {HLine("A"), XLine("abc"), FenceLine}

\* path.basename on the paths of the model.
Basename(file) == IF file = "guides/R1-API.md" THEN "R1-API.md" ELSE file

\* filename.match(/^(R\d+)-(.+)\.md$/)
DocNameMatch(filename) == filename \in {"R1-API.md", "R2-API.md"}

\* The files that findDocFiles returns for a root, in the order of the walk:
\* every .md file of the root directory and every R<n>-*.md file of a
\* directory below it.
DocFileLists ==
  {<<"R1-API.md", "guides/R1-API.md">>,
   <<"R1-API.md", "R2-API.md">>,
   <<"R1-API.md", "README.md">>}

\* lineEnd of a section that is closed by the heading at index i.
SectionEndOverlapping(i) == i

SectionEndAt(i) == i - 1

\* The section that parseDocFile pushes, when it pushes one.
SavedSection(filename, heading, content, lineStart, lineEnd) ==
  IF heading # "" /\ content # <<>>
  THEN <<[file |-> filename, heading |-> heading, content |-> content,
          lineStart |-> lineStart, lineEnd |-> lineEnd]>>
  ELSE <<>>

\* The loop of parseDocFile from index i (counted from 0) on.
RECURSIVE ParseLinesFrom(_, _, _, _, _, _)
ParseLinesFrom(lines, i, filename, currentHeading, currentContent, currentLineStart) ==
  IF i >= Len(lines)
  THEN SavedSection(filename, currentHeading, currentContent, currentLineStart,
                    Len(lines) - 1)
  ELSE LET line == lines[i + 1]
       IN IF line.t = "h"
          THEN SavedSection(filename, currentHeading, currentContent,
                            currentLineStart, SectionEndAt(i))
               \o ParseLinesFrom(lines, i + 1, filename, line.s, <<>>, i)
          ELSE IF currentHeading # ""
               THEN ParseLinesFrom(lines, i + 1, filename, currentHeading,
                                   Append(currentContent, line), currentLineStart)
               ELSE ParseLinesFrom(lines, i + 1, filename, currentHeading,
                                   currentContent, currentLineStart)

\* parseDocFile with the line numbers of the sections.
parseDocFileLines(file, lines) ==
  IF ~DocNameMatch(Basename(file)) THEN <<>>
  ELSE ParseLinesFrom(lines, 0, Basename(file), "", <<>>, 0)

\* The number of characters of lines joined by "\n".
JoinedLength(text) == IF text = <<>> THEN 0 ELSE 4 * Len(text) - 1

\* estimateTokens: Math.ceil(text.length / 4); a text is a sequence of lines.
estimateTokens(text) == (JoinedLength(text) + 3) \div 4

\* The options chunkSections is called with.
ChunkerOptions == [maxTokens |-> 1, overlapTokens |-> 1]

\* splitMarkdown: a closed code fence ends a segment. No line of the content of
\* a section is a heading or blank.
RECURSIVE SplitFrom(_, _, _)
SplitFrom(lines, currentSegment, inCodeFence) ==
  IF lines = <<>>
  THEN (IF currentSegment # <<>> THEN <<currentSegment>> ELSE <<>>)
  ELSE IF Head(lines).t = "c" /\ inCodeFence
       THEN <<Append(currentSegment, Head(lines))>> \o SplitFrom(Tail(lines), <<>>, FALSE)
       ELSE SplitFrom(Tail(lines), Append(currentSegment, Head(lines)),
                      inCodeFence \/ Head(lines).t = "c")

splitMarkdown(content) == SplitFrom(content, <<>>, FALSE)

\* The lines of segments joined by "\n".
RECURSIVE JoinSegments(_)
JoinSegments(segments) ==
  IF segments = <<>> THEN <<>> ELSE Head(segments) \o JoinSegments(Tail(segments))

\* getOverlapSegments: the longest tail of the segments within targetTokens.
RECURSIVE OverlapFrom(_, _, _, _)
OverlapFrom(segments, i, tokens, targetTokens) ==
  IF i < 1 THEN <<>>
  ELSE IF tokens + estimateTokens(segments[i]) > targetTokens THEN <<>>
       ELSE Append(OverlapFrom(segments, i - 1, tokens + estimateTokens(segments[i]),
                               targetTokens),
                   segments[i])

getOverlapSegments(segments, targetTokens) ==
  OverlapFrom(segments, Len(segments), 0, targetTokens)

\* The id of a chunk: file:lineStart-lineEnd:chunkIndex.
ChunkId(section, chunkIndex) ==
  <<section.file, ":", section.lineStart, "-", section.lineEnd, ":", chunkIndex>>

\* A chunk. tokens is the field of that name; fresh is history: the number
\* of segments of the chunk that are not overlap of the chunk before it (0
\* for the single chunk of a small section).
NewChunk(section, chunkIndex, content, tokens, fresh) ==
  [id |-> ChunkId(section, chunkIndex), file |-> section.file,
   lineStart |-> section.lineStart, lineEnd |-> section.lineEnd,
   chunkIndex |-> chunkIndex, content |-> <<section.heading>> \o content,
   tokens |-> tokens, fresh |-> fresh]

\* estimateTokens(section.heading)
HeadingTokens(heading) == estimateTokens(<<heading>>)

\* A test of the budget that is made before the segment is added.
ExceedsMaxBeforeAdding(currentTokens, segmentTokens, opts) ==
  currentTokens > opts.maxTokens

\* currentTokens + segmentTokens > opts.maxTokens
ExceedsMax(currentTokens, segmentTokens, opts) ==
  currentTokens + segmentTokens > opts.maxTokens

\* The loop of chunkSection over the segments, and the final chunk.
RECURSIVE CombineFrom(_, _, _, _, _, _, _)
CombineFrom(section, segments, currentChunk, currentTokens, chunkIndex, fresh, opts) ==
  IF segments = <<>>
  THEN (IF currentChunk # <<>>
        THEN <<NewChunk(section, chunkIndex, JoinSegments(currentChunk),
                        currentTokens + HeadingTokens(section.heading), fresh)>>
        ELSE <<>>)
  ELSE LET segment == Head(segments)
           segmentTokens == estimateTokens(segment)
       IN IF ExceedsMax(currentTokens, segmentTokens, opts) /\ currentChunk # <<>>
          THEN LET overlapSegments == getOverlapSegments(currentChunk, opts.overlapTokens)
               IN <<NewChunk(section, chunkIndex, JoinSegments(currentChunk),
                             currentTokens + HeadingTokens(section.heading), fresh)>>
                  \o CombineFrom(section, Tail(segments),
                                 Append(overlapSegments, segment),
                                 estimateTokens(JoinSegments(overlapSegments)) + segmentTokens,
                                 chunkIndex + 1, 1, opts)
          ELSE CombineFrom(section, Tail(segments), Append(currentChunk, segment),
                           currentTokens + segmentTokens, chunkIndex, fresh + 1, opts)

chunkSection(section, opts) ==
  IF estimateTokens(section.content) <= opts.maxTokens
  THEN <<NewChunk(section, 0, section.content, estimateTokens(section.content), 0)>>
  ELSE CombineFrom(section, splitMarkdown(section.content), <<>>, 0, 0, 0, opts)

RECURSIVE chunkSections(_, _)
chunkSections(sections, opts) ==
  IF sections = <<>> THEN <<>>
  ELSE chunkSection(Head(sections), opts) \o chunkSections(Tail(sections), opts)

\* A section given to chunkSection has MaxContent lines of content at most.
MaxContent == 5

\* The calls of chunkSection: a section and the options maxTokens and
\* overlapTokens.
ChunkSectionCalls ==
  {[fn |-> "chunkSection",
    section |-> [file |-> "R1-API.md", heading |-> "A", content |-> content,
                 lineStart |-> 0, lineEnd |-> Len(content)],
    opts |-> [maxTokens |-> m, overlapTokens |-> o],
    chunks |-> <<>>, pc |-> "call"] :
     content \in SeqsUpTo({XLine("abc"), FenceLine}, MaxContent) \ {<<>>},
     m \in 1..4, o \in 0..2}

\* chunkSection(section, options)
ChunkSection ==
  /\ call.fn = "chunkSection" /\ call.pc = "call"
  /\ call' = [call EXCEPT !.chunks = chunkSection(call.section, call.opts),
                          !.pc = "done"]
  /\ UNCHANGED <<cacheVars, docsVars>>

\* The files of a root with their lines, before they are parsed.
ChunkCalls ==
  {[fn |-> "chunks", files |-> files, lines |-> lines, next |-> 1,
    parsed |-> <<>>, sections |-> <<>>, chunks |-> <<>>, pc |-> "parse"] :
     files \in DocFileLists, lines \in [1..2 -> SeqsUpTo(DocLines, MaxDocLines)]}

\* parseDocumentation, one turn of its loop over the files.
ParseDocFile ==
  /\ call.fn = "chunks" /\ call.pc = "parse"
  /\ call.next <= Len(call.files)
  /\ LET parsed == parseDocFileLines(call.files[call.next], call.lines[call.next])
     IN call' = [call EXCEPT !.parsed = parsed,
                             !.sections = call.sections \o parsed,
                             !.next = call.next + 1,
                             !.pc = IF call.next = Len(call.files) THEN "chunk" ELSE "parse"]
  /\ UNCHANGED <<cacheVars, docsVars>>

\* chunkSections on the sections of the root.
ChunkSections ==
  /\ call.fn = "chunks" /\ call.pc = "chunk"
  /\ call' = [call EXCEPT !.chunks = chunkSections(call.sections, ChunkerOptions),
                          !.pc = "done"]
  /\ UNCHANGED <<cacheVars, docsVars>>

ChunkInit ==
  /\ CacheInit
  /\ DocsInit
  /\ call \in ChunkCalls \cup ChunkSectionCalls

ChunkNext ==
  \/ ParseDocFile
  \/ ChunkSections
  \/ ChunkSection

\* The file parsed last and its lines.
ParsedLines == call.lines[call.next - 1]

\* C27: the sections of a parsed file have pairwise disjoint line ranges in
\* increasing order of the source, and each one starts at the line of its
\* heading.
C27_SectionRanges ==
  (call.fn = "chunks" /\ call.next > 1) =>
    /\ \A k \in 1..Len(call.parsed) :
         /\ call.parsed[k].lineStart <= call.parsed[k].lineEnd
         /\ call.parsed[k].lineEnd <= Len(ParsedLines) - 1
         /\ ParsedLines[call.parsed[k].lineStart + 1].t = "h"
         /\ ParsedLines[call.parsed[k].lineStart + 1].s = call.parsed[k].heading
    /\ \A k \in 1..(Len(call.parsed) - 1) :
         call.parsed[k].lineEnd < call.parsed[k + 1].lineStart

\* A file of two sections has been parsed.
C27_Witness ==
  /\ call.fn = "chunks" /\ call.next > 1
  /\ Len(call.parsed) >= 2

\* The estimate of the content of a chunk, which begins with the heading.
TokensWithHeading(chunk) ==
  estimateTokens(Tail(chunk.content)) + HeadingTokens(Head(chunk.content))

C26_UniqueIds ==
  (call.fn = "chunks" /\ call.pc = "done") =>
    \A a, b \in 1..Len(call.chunks) :
      call.chunks[a].id = call.chunks[b].id => a = b

\* ---------------------------------------------------------------------------
\* Part VIII: apply_doc_update called in server processes that share the
\* corpus (tools/doc-update-tools.ts, DocUpdateAgent.applyUpdate)
\* ---------------------------------------------------------------------------

\* The server processes; each one has its own agent and caches.
Processes == {"p1", "p2"}

\* The target paths of the calls.
ToolPaths == {"R1-CONFIGURATION.md", "R1-NOTES.md"}

\* targetPath.includes("NOTES")
IncludesNotes(targetPath) == targetPath = "R1-NOTES.md"

\* The action of the suggestion that applyDocUpdate hands to applyUpdate.
ToolAction(targetPath) == IF IncludesNotes(targetPath) THEN "create" ELSE "update"

\* The diff arguments of the calls.
ToolDiffs == {<<XLine("one")>>, <<XLine("two")>>, <<FLine("Database", "MySQL")>>}

\* A process that has not called yet.
IdleProcess == [pc |-> "idle", pre |-> NoFile, updated |-> <<>>, status |-> "none"]

\* The target file and the arguments with which each process will call
\* applyDocUpdate(projectRoot, targetPath, diff, force).
ToolCalls ==
  {[fn |-> "apply", path |-> path, file |-> file, orig |-> file, diff |-> diff,
    force |-> force, proc |-> [p \in Processes |-> IdleProcess]] :
     path \in ToolPaths, file \in {NoFile, File(ConfigPg, 0)},
     diff \in [Processes -> ToolDiffs], force \in [Processes -> BOOLEAN]}

\* The conflicts that the preflight of applyUpdate finds; the fact index of a
\* process that has not read it before is built from the files as they are.
PreflightConflicts(path, file, diff) ==
  LET index == IF file.exists THEN FactIndexOf(parseDocFile(path, file.lines)) ELSE <<>>
  IN Len(findConflicts(index, extractFactsFromDiff(diff, path)))

\* applyDocUpdate in process p, up to writeFileSync: the preflight, and for an
\* update readFileSync and applyDiff. The call ends here when the preflight
\* blocks it or readFileSync throws.
ApplyRead(p) ==
  LET action == ToolAction(call.path)
      n == PreflightConflicts(call.path, call.file, call.diff[p])
      failed == ApplyBlocked(n, call.force[p]) \/ (action = "update" /\ ~call.file.exists)
      updated == IF action = "create" THEN call.diff[p]
                 ELSE applyDiff(call.file.lines, call.diff[p])
  IN
  /\ call.fn = "apply"
  /\ call.proc[p].pc = "idle"
  /\ call' = [call EXCEPT !.proc[p] =
                IF failed
                THEN [pc |-> "done", pre |-> call.file, updated |-> <<>>, status |-> "error"]
                ELSE [pc |-> "write", pre |-> call.file, updated |-> updated,
                      status |-> "none"]]
  /\ UNCHANGED <<cacheVars, docsVars>>

\* writeFileSync(targetPath, ...) of process p and the return of success.
ApplyWrite(p) ==
  /\ call.fn = "apply"
  /\ call.proc[p].pc = "write"
  /\ call' = [call EXCEPT !.file = File(call.proc[p].updated, 0),
                          !.proc[p].pc = "done",
                          !.proc[p].status = "success"]
  /\ UNCHANGED <<cacheVars, docsVars>>

ApplyInit ==
  /\ CacheInit
  /\ DocsInit
  /\ call \in ToolCalls

ApplyNext ==
  \/ \E p \in Processes : ApplyRead(p)
  \/ \E p \in Processes : ApplyWrite(p)

\* s is a prefix of t.
IsPrefix(s, t) == Len(s) <= Len(t) /\ SubSeq(t, 1, Len(s)) = s

\* C34: apply_doc_update never destroys existing content: when the target
\* exists before the call and the call reports success, the previous content
\* of the file is a prefix of its new content (no other process writes the
\* file during the call).
C34_Step ==
  \A p \in Processes :
    (/\ call.fn = "apply"
     /\ call.proc[p].pc = "write" /\ call'.proc[p].status = "success"
     /\ call.proc[p].pre.exists
     /\ call.file = call.proc[p].pre) =>
       IsPrefix(call.proc[p].pre.lines, call'.file.lines)

C34_KeepsContent == [][C34_Step]_vars

\* C35: when two update calls on the same target run concurrently in
\* different processes and both return success, the file holds the original
\* content followed by both diffs.
C35_NoLostAppend ==
  (/\ call.fn = "apply"
   /\ ToolAction(call.path) = "update"
   /\ \A p \in Processes : call.proc[p].status = "success") =>
     \/ call.file.lines = call.orig.lines \o call.diff["p1"] \o call.diff["p2"]
     \/ call.file.lines = call.orig.lines \o call.diff["p2"] \o call.diff["p1"]

\* ---------------------------------------------------------------------------
\* Part IX: buildIndex while another process changes the files
\* (utils/doc-index.ts)
\* ---------------------------------------------------------------------------

\* The files of the root when buildIndex is called.
BuildDirs == [Paths -> {NoFile, File(ConfigPg, 0), File(ConfigMy, 0)}]

\* buildIndex has been called; nothing has been read yet.
BuildCalls ==
  {[fn |-> "build", dir |-> dir, pc |-> "parse", parsedFrom |-> dir,
    sections |-> <<>>, index |-> NoIndexEntry, changes |-> 0] : dir \in BuildDirs}

\* buildIndex, first statement: parseDocumentation(docsPath) reads the files.
BuildParse ==
  /\ call.fn = "build" /\ call.pc = "parse"
  /\ call' = [call EXCEPT !.sections = parseDocumentation(call.dir),
                          !.parsedFrom = call.dir,
                          !.pc = "fingerprint"]
  /\ UNCHANGED <<cacheVars, docsVars>>

\* buildIndex, the rest: calculateFingerprint(docsPath) walks the directory
\* and reads the modification times; the index is made of the two results.
BuildFingerprint ==
  /\ call.fn = "build" /\ call.pc = "fingerprint"
  /\ call' = [call EXCEPT !.index = [NoIndexEntry EXCEPT
                                       !.present = TRUE,
                                       !.sections = call.sections,
                                       !.fingerprint = calculateFingerprint(call.dir),
                                       !.fileCount = Len(call.sections)],
                          !.pc = "done"]
  /\ UNCHANGED <<cacheVars, docsVars>>

\* Another process writes or removes a file of the root; a write sets the
\* modification time.
BuildExternalChange(f, file) ==
  /\ call.fn = "build" /\ call.pc # "done"
  /\ call.changes < MaxMtime
  /\ file # call.dir[f]
  /\ call' = [call EXCEPT !.dir[f] = file, !.changes = call.changes + 1]
  /\ UNCHANGED <<cacheVars, docsVars>>

BuildInit ==
  /\ CacheInit
  /\ DocsInit
  /\ call \in BuildCalls

BuildNext ==
  \/ BuildParse
  \/ BuildFingerprint
  \/ \E f \in Paths, file \in {NoFile, File(ConfigPg, 1), File(ConfigMy, 1)} :
       BuildExternalChange(f, file)

\* C36: the fingerprint of a DocIndex describes the file state from which its
\* sections were parsed, also when a file changes while the index is built.
C36_FingerprintOfParsedState ==
  (call.fn = "build" /\ call.pc = "done") =>
    /\ call.index.sections = parseDocumentation(call.parsedFrom)
    /\ call.index.fingerprint = calculateFingerprint(call.parsedFrom)

\* ---------------------------------------------------------------------------
\* Part X: answerWithCitations, its lazily created components and the rows of
\* the vector store (tools/answer-with-citations.ts)
\* ---------------------------------------------------------------------------

\* The concurrent calls of answerWithCitations in one process.
AnswerCallers == {"a1", "a2"}

\* The contents of the one file of the root: no section, one, two.
AnswerCorpora ==
  {<<>>,
   <<HLine("A"), XLine("abc")>>,
   <<HLine("A"), XLine("abc"), HLine("A"), XLine("abc")>>}

\* chunkSections(getDocIndex(projectRoot).sections)
CorpusChunks(lines) ==
  chunkSections(parseDocFileLines("R1-API.md", lines), ChunkerOptions)

\* A call that has not begun.
IdleAnswer == [pc |-> "idle", verAtCall |-> 0, mode |-> "none", usedVer |-> 0,
               used |-> <<>>]

\* The module state of answer-with-citations.ts after import, the corpus and
\* the collection of the vector store.
\*   lines, ver : the file and the number of changes applied to it
\*   rows, rowsVer : the rows of the collection and the corpus version they
\*                   were indexed from
\*   embedders, rerankers, connections : components created so far
AnswerStates ==
  {[fn |-> "answer", lines |-> lines, ver |-> 0, rows |-> <<>>, rowsVer |-> 0,
    isInitialized |-> FALSE, milvusStore |-> FALSE, ragPipeline |-> FALSE,
    embedders |-> 0, rerankers |-> 0, connections |-> 0, milvusUp |-> up,
    calls |-> [c \in AnswerCallers |-> IdleAnswer]] :
     lines \in AnswerCorpora, up \in BOOLEAN}

\* answerWithCitations begins: ensureInitialized up to the await of
\* createMilvusStore; it returns at once when isInitialized is set.
EnsureInitialized(c) ==
  /\ call.fn = "answer"
  /\ call.calls[c].pc = "idle"
  /\ call' = IF call.isInitialized
             THEN [call EXCEPT !.calls[c].pc = "ready",
                               !.calls[c].verAtCall = call.ver]
             ELSE [call EXCEPT !.embedders = @ + 1,
                               !.rerankers = @ + 1,
                               !.calls[c].pc = "connecting",
                               !.calls[c].verAtCall = call.ver]
  /\ UNCHANGED <<cacheVars, docsVars>>

\* createMilvusStore has settled: the rest of ensureInitialized.
CreateStoreSettled(c) ==
  /\ call.fn = "answer"
  /\ call.calls[c].pc = "connecting"
  /\ call' = [call EXCEPT !.milvusStore = call.milvusUp,
                          !.connections = IF call.milvusUp THEN @ + 1 ELSE @,
                          !.ragPipeline = @ \/ call.milvusUp,
                          !.isInitialized = TRUE,
                          !.calls[c].pc = "ready"]
  /\ UNCHANGED <<cacheVars, docsVars>>

\* The rest of answerWithCitations: without a pipeline the fallback search on
\* the doc index; else indexDocsIfNeeded, which indexes only an empty
\* collection, and the query on the rows of the collection.
AnswerQuery(c) ==
  LET empty == call.rows = <<>>
      rows == IF empty THEN CorpusChunks(call.lines) ELSE call.rows
      rowsVer == IF empty THEN call.ver ELSE call.rowsVer
  IN
  /\ call.fn = "answer"
  /\ call.calls[c].pc = "ready"
  /\ call' = IF ~call.ragPipeline
             THEN [call EXCEPT !.calls[c].pc = "done", !.calls[c].mode = "fallback"]
             ELSE [call EXCEPT !.rows = rows, !.rowsVer = rowsVer,
                               !.calls[c].pc = "done", !.calls[c].mode = "rag",
                               !.calls[c].used = rows,
                               !.calls[c].usedVer = rowsVer]
  /\ UNCHANGED <<cacheVars, docsVars>>

\* A change of the file is applied by applyUpdate or detected by the watcher:
\* the doc index and the fact index are invalidated; the collection is left
\* as it is.
DocumentChange(lines) ==
  /\ call.fn = "answer"
  /\ call.ver < MaxMtime
  /\ lines # call.lines
  /\ call' = [call EXCEPT !.lines = lines, !.ver = call.ver + 1]
  /\ UNCHANGED <<cacheVars, docsVars>>

AnswerInit ==
  /\ CacheInit
  /\ DocsInit
  /\ call \in AnswerStates

AnswerNext ==
  \/ \E c \in AnswerCallers : EnsureInitialized(c)
  \/ \E c \in AnswerCallers : CreateStoreSettled(c)
  \/ \E c \in AnswerCallers : AnswerQuery(c)
  \/ \E lines \in AnswerCorpora : DocumentChange(lines)

\* C37: an answerWithCitations call that begins after a change of a document
\* retrieves from rows that were indexed after the change.
C37_RowsReindexed ==
  call.fn = "answer" =>
    \A c \in AnswerCallers :
      (call.calls[c].pc = "done" /\ call.calls[c].mode = "rag") =>
        call.calls[c].usedVer >= call.calls[c].verAtCall

\* C38: under concurrent first calls of answerWithCitations, the embedder, the
\* reranker and the connection of the vector store are created once at most.
C38_CreatedOnce ==
  call.fn = "answer" =>
    /\ call.embedders <= 1
    /\ call.rerankers <= 1
    /\ call.connections <= 1

\* A corpus on which the index is built.
FingerprintInit ==
  /\ CacheInit
  /\ DocsInit
  /\ call \in {[fn |-> "corpus", tree |-> tree] : tree \in Trees}

\* Index builds around one change of the corpus.
FingerprintNext ==
  \/ \E f \in TreePaths, t \in 0..MaxMtime : FingerprintAdd(f, t)
  \/ \E f \in TreePaths : FingerprintRemove(f)
  \/ \E f \in TreePaths, g \in TreePaths : FingerprintRename(f, g)
  \/ \E f \in TreePaths, t \in 0..MaxMtime : FingerprintTouch(f, t)

Init == CacheInit /\ DocsInit /\ call = NoCall

\* createDocsWatcher(docsPath, onReindex) has run start().
WatchInit ==
  /\ CacheInit
  /\ call = NoCall
  /\ \E cb \in {"none", "async"} :
       /\ onReindex = cb
       /\ watcher = "chokidar"
       /\ now = 0 /\ dver = 0 /\ successVer = 0
       /\ disk = [f \in Paths |-> IF f = "R1-CONFIGURATION.md" THEN File(ConfigPg, 0) ELSE NoFile]
       /\ docCache = [r \in Roots |-> NoIndexEntry]
       /\ factCache = [r \in Roots |-> NoFactEntry]
       /\ suggestion = NoSuggestion /\ pcApply = "idle" /\ wr = NoWrite
       /\ applyLoc = NoApply /\ events = <<>> /\ result = NoResult
       /\ observed = [inWrite |-> FALSE, whole |-> TRUE]
       /\ fsPending = [f \in Paths |-> NoChange]
       /\ timers = [f \in Paths |-> NoTimer]
       /\ awaiting = {}
       /\ wLast = [kind |-> "", file |-> ""]
       /\ invd = [r \in Roots |-> FALSE]
       /\ scheduled = {}
       /\ lastNotified = [f \in Paths |-> 0]
       /\ errListener = FALSE
       /\ uncaught = "none"
       /\ notes = 0
       /\ returnedMax = [r \in Roots |-> -1]
  /\ returnedMax = [r \in Roots |-> -1]
       /\ burst = [f \in Paths |-> [n |-> 0, fired |-> 0]]

\* new DocsWatcher(docsPath, onReindex, options) followed by start(), with
\* or without a listener of the `error` event.
DebounceInit ==
  /\ CacheInit
  /\ call = NoCall
  /\ \E cb \in {"none", "async"}, lst \in BOOLEAN :
       /\ onReindex = cb
       /\ errListener = lst
       /\ watcher = "chokidar"
       /\ now = 0 /\ dver = 0 /\ successVer = 0
       /\ disk = [f \in Paths |-> IF f = "R1-CONFIGURATION.md" THEN File(ConfigPg, 0) ELSE NoFile]
       /\ docCache = [r \in Roots |-> NoIndexEntry]
       /\ factCache = [r \in Roots |-> NoFactEntry]
       /\ suggestion = NoSuggestion /\ pcApply = "idle" /\ wr = NoWrite
       /\ applyLoc = NoApply /\ events = <<>> /\ result = NoResult
       /\ observed = [inWrite |-> FALSE, whole |-> TRUE]
       /\ fsPending = [f \in Paths |-> NoChange]
       /\ timers = [f \in Paths |-> NoTimer]
       /\ awaiting = {}
       /\ wLast = [kind |-> "", file |-> ""]
       /\ invd = [r \in Roots |-> FALSE]
       /\ scheduled = {}
       /\ lastNotified = [f \in Paths |-> 0]
       /\ uncaught = "none"
       /\ notes = 0
       /\ returnedMax = [r \in Roots |-> -1]
  /\ returnedMax = [r \in Roots |-> -1]
       /\ burst = [f \in Paths |-> [n |-> 0, fired |-> 0]]

SpecCache == Init /\ [][CacheNext]_vars

SpecDocs == Init /\ [][DocsNext]_vars

SpecWatch == WatchInit /\ [][WatchNext]_vars

SpecDebounce == DebounceInit /\ [][DebounceNext]_vars

SpecFingerprint == FingerprintInit /\ [][FingerprintNext]_vars

SpecInvalidate == Init /\ [][InvalidateNext]_vars

SpecFacts == FactsInit /\ [][FactsNext]_vars

SpecQuery == QueryInit /\ [][QueryNext]_vars

SpecSearch == SearchInit /\ [][SearchNext]_vars

SpecBridge == BridgeInit /\ [][BridgeNext]_vars

SpecChunks == ChunkInit /\ [][ChunkNext]_vars

SpecApply == ApplyInit /\ [][ApplyNext]_vars

SpecBuild == BuildInit /\ [][BuildNext]_vars

SpecAnswer == AnswerInit /\ [][AnswerNext]_vars
====
